---- MODULE Spec2Model ----
(***************************************************************************)
(* Model of the core of heherui/checkin: the seating grid (Table), the     *)
(* check-in tracker (AttendanceBook) and the operations on both.           *)
(*                                                                         *)
(*   src/src/core/table.rs       Table, Position, Subject, CellKind        *)
(*   src/src/core/attendance.rs  AttendanceBook, AttendanceStatus          *)
(*                                                                         *)
(* A Position is a record [x, y].  A Subject is a record [tag, name] with  *)
(* tag in {"Transparent", "Block", "Some"}; a name is a sequence of        *)
(* one-character strings, so that trimming is computed, not assumed.       *)
(* Option::None is the value None.  A HashMap is a function whose DOMAIN   *)
(* is the set of stored keys.                                              *)
(***************************************************************************)
EXTENDS Integers, Sequences, FiniteSets, TLC

(* ------------------------------ bounds --------------------------------- *)

\* Number of operations applied after construction.
MaxSteps == 2

\* Number of events the views handle after startup.
MaxEvents == 3

(* ------------------------- program constants --------------------------- *)

\* Half a u32 word.  The model checker's integers are 32-bit signed, so u32
\* arithmetic that may pass 2^31 is carried out on two 16-bit limbs.
Limb == 65536

VARIABLES
    table,        \* ViewState.table / a Table: [row_count, column_count, subjects]
    attendance,   \* AttendanceBook.statuses: Position -> AttendanceStatus
    last,         \* the operation performed last: [op, args, ret] or
                  \* [op, args, ret, out]
    steps,        \* number of operations performed since construction
    mode,         \* ViewState.mode: "CheckIn" or "Edit"
    panel,        \* the AttendanceStatistics the StatisticsPanel shows
    config_file,  \* what the path Configuration.config_file holds
    dialog        \* the modal window that is open: None, or the
                  \* CellEditDialog or the StatusDialog of a cell

vars == <<table, attendance, last, steps, mode, panel, config_file, dialog>>

\* The state of the views around the grid and the tracker.
ui == <<mode, panel, config_file, dialog>>

(* ------------------------------ values --------------------------------- *)

None == [tag |-> "None"]

Transparent == [tag |-> "Transparent"]
Block(name) == [tag |-> "Block", name |-> name]
Some(name) == [tag |-> "Some", name |-> name]

Position(x, y) == [x |-> x, y |-> y]

\* CellKind
Active == [tag |-> "Active"]
Blocked == [tag |-> "Blocked"]
TransparentKind == [tag |-> "TransparentKind"]

AttendanceStatusALL == {"Checked", "Unchecked", "Marked"}

\* #[default] of AttendanceStatus
AttendanceStatusDefault == "Unchecked"

EmptyMap == [q \in {} |-> q]

\* HashMap::insert
MapInsert(m, k, v) == [q \in (DOMAIN m) \cup {k} |-> IF q = k THEN v ELSE m[q]]

\* HashMap::remove
MapRemove(m, k) == [q \in (DOMAIN m) \ {k} |-> m[q]]

\* HashMap::get, None when the key is absent
MapGet(m, k) == IF k \in DOMAIN m THEN m[k] ELSE None

(* ------------------------------- u32 ----------------------------------- *)

\* A u32 as two 16-bit limbs; U32 takes a number below 2^31.  Every u32 of
\* the program that is computed (dimensions, counts) is kept in this form;
\* the coordinates of a Position are only compared, copied and decremented
\* and are kept as plain numbers.
U32(n) == [hi |-> n \div Limb, lo |-> n % Limb]

\* u32::MAX
U32MAX == [hi |-> Limb - 1, lo |-> Limb - 1]

\* The number a u32 stands for (defined below 2^31 only).
U32ToNat(w) == w.hi * Limb + w.lo

\* v < w and v <= w on u32
U32Lt(v, w) == v.hi < w.hi \/ (v.hi = w.hi /\ v.lo < w.lo)

U32Le(v, w) == v = w \/ U32Lt(v, w)

\* u32 subtraction: the difference modulo 2^32 and whether it went below 0.
U32Sub(v, w) ==
    LET borrow == IF v.lo < w.lo THEN 1 ELSE 0
        lo     == v.lo + borrow * Limb - w.lo
        hi     == v.hi - w.hi - borrow
    IN  [value |-> [hi |-> (hi + Limb) % Limb, lo |-> lo], borrow |-> hi < 0]

\* u32 addition: the sum modulo 2^32 and whether it passed u32::MAX.
U32Add(v, w) ==
    LET lo == v.lo + w.lo
        hi == v.hi + w.hi + (lo \div Limb)
    IN  [value |-> [hi |-> hi % Limb, lo |-> lo % Limb], carry |-> hi >= Limb]

\* u32 times a number of at most 256: the product modulo 2^32 and whether it
\* passed u32::MAX.
U32MulSmall(w, k) ==
    LET lo == w.lo * k
        hi == w.hi * k + (lo \div Limb)
    IN  [value |-> [hi |-> hi % Limb, lo |-> lo % Limb], carry |-> hi >= Limb]

\* u32 multiplication, one base-256 digit of n at a time: the product modulo
\* 2^32 and whether the true product passed u32::MAX.
RECURSIVE U32MulLoop(_, _)
U32MulLoop(w, n) ==
    IF n = 0 THEN [value |-> U32(0), overflow |-> FALSE]
    ELSE LET rest    == U32MulLoop(w, n \div 256)
             shifted == U32MulSmall(rest.value, 256)
             digit   == U32MulSmall(w, n % 256)
             sum     == U32Add(shifted.value, digit.value)
         IN  [value |-> sum.value,
              overflow |-> rest.overflow \/ shifted.carry \/ digit.carry \/ sum.carry]

\* a * b = (a * b.hi) * 2^16 + a * b.lo
U32Mul(a, b) ==
    LET high    == U32MulLoop(a, b.hi)
        shift8  == U32MulSmall(high.value, 256)
        shift16 == U32MulSmall(shift8.value, 256)
        low     == U32MulLoop(a, b.lo)
        sum     == U32Add(shift16.value, low.value)
    IN  [value |-> sum.value,
         overflow |-> \/ high.overflow \/ shift8.carry \/ shift16.carry
                      \/ low.overflow \/ sum.carry]

\* u32 division v / w, w not 0.  Computed on plain numbers where both are
\* below 2^31, and by search of the quotient otherwise (defined where the
\* quotient is at most 255).
U32Div(v, w) ==
    IF v.hi < Limb \div 2 /\ w.hi < Limb \div 2
    THEN U32(U32ToNat(v) \div U32ToNat(w))
    ELSE U32(CHOOSE q \in 0..255 :
                /\ ~U32MulSmall(w, q).carry
                /\ U32Le(U32MulSmall(w, q).value, v)
                /\ \/ U32MulSmall(w, q + 1).carry
                   \/ U32Lt(v, U32MulSmall(w, q + 1).value))

(* --------------------------- str::trim --------------------------------- *)

\* char::is_whitespace, the test of str::trim: the characters of the Unicode
\* property White_Space. A character is a string of length one here. The
\* vertical tab, the next line, the no-break space and the Ogham space mark
\* have no escape and stand in their strings as themselves. The remaining
\* White_Space characters (U+2000 to U+200A, U+2028, U+2029, U+202F, U+205F,
\* U+3000) are above what a string of this module can hold, so the operator
\* is char::is_whitespace on every character that can be written here.
IsWhitespace(c) ==
    \/ c = "\t"        \* U+0009 character tabulation
    \/ c = "\n"        \* U+000A line feed
    \/ c = ""         \* U+000B line tabulation (vertical tab)
    \/ c = "\f"        \* U+000C form feed
    \/ c = "\r"        \* U+000D carriage return
    \/ c = " "         \* U+0020 space
    \/ c = ""         \* U+0085 next line
    \/ c = " "         \* U+00A0 no-break space
    \/ c = " "         \* U+1680 Ogham space mark

RECURSIVE TrimStart(_)
TrimStart(s) ==
    IF s = <<>> THEN <<>>
    ELSE IF IsWhitespace(Head(s)) THEN TrimStart(Tail(s))
    ELSE s

RECURSIVE TrimEnd(_)
TrimEnd(s) ==
    IF s = <<>> THEN <<>>
    ELSE IF IsWhitespace(s[Len(s)]) THEN TrimEnd(SubSeq(s, 1, Len(s) - 1))
    ELSE s

Trim(s) == TrimEnd(TrimStart(s))

(* ------------------------------ Table ---------------------------------- *)

MkTable(row_count, column_count, subjects) ==
    [row_count |-> row_count, column_count |-> column_count, subjects |-> subjects]

\* The loop of Table::new keeping the first entry of a position.
RECURSIVE NewLoopKeepFirst(_, _, _, _)
NewLoopKeepFirst(row_count, column_count, entries, subject_map) ==
    IF entries = <<>> THEN subject_map
    ELSE LET position == Head(entries)[1]
             subject  == Head(entries)[2]
         IN  NewLoopKeepFirst(row_count, column_count, Tail(entries),
                     IF /\ U32Lt(U32(position.x), column_count)
                        /\ U32Lt(U32(position.y), row_count)
                        /\ position \notin DOMAIN subject_map
                     THEN MapInsert(subject_map, position, subject)
                     ELSE subject_map)

\* Table::new: out-of-bounds entries are skipped, later entries overwrite.
RECURSIVE NewLoop(_, _, _, _)
NewLoop(row_count, column_count, entries, subject_map) ==
    IF entries = <<>> THEN subject_map
    ELSE LET position == Head(entries)[1]
             subject  == Head(entries)[2]
         IN  NewLoop(row_count, column_count, Tail(entries),
                     IF /\ U32Lt(U32(position.x), column_count)
                        /\ U32Lt(U32(position.y), row_count)
                     THEN MapInsert(subject_map, position, subject)
                     ELSE subject_map)

\* Table::new without the bounds check of the entries.
TableNewUnchecked(row_count, column_count, entries) ==
    MkTable(row_count, column_count,
            NewLoop(U32MAX, U32MAX, entries, EmptyMap))

TableNew(row_count, column_count, entries) ==
    MkTable(row_count, column_count,
            NewLoop(row_count, column_count, entries, EmptyMap))

\* Table::total_cells: the u32 product row_count * column_count.
\* [value, overflow]: value is the product modulo 2^32 (what a build without
\* overflow checks returns); overflow says the true product is >= 2^32 (a
\* build with overflow checks panics there).
TotalCellsMul(t) == U32Mul(t.row_count, t.column_count)

TotalCells(t) == TotalCellsMul(t).value

\* Whether total_cells panics ("attempt to multiply with overflow") in a build
\* with overflow checks.
TotalCellsPanics(t) == TotalCellsMul(t).overflow

\* Table::row_count / Table::column_count, as numbers (below 2^31 only)
RowCount(t) == U32ToNat(t.row_count)

ColumnCount(t) == U32ToNat(t.column_count)

Contains(t, position) ==
    /\ U32Lt(U32(position.x), t.column_count)
    /\ U32Lt(U32(position.y), t.row_count)

SubjectAt(t, position) == MapGet(t.subjects, position)

IsTransparent(subject) == subject.tag = "Transparent"

IsBlocked(subject) == subject.tag = "Block"

\* Table::normalize_subject
NormalizeSubject(subject) ==
    CASE subject.tag = "Some" ->
            LET name == Trim(subject.name)
            IN  IF name = <<>> THEN None ELSE Some(name)
      [] subject.tag = "Block" -> Block(Trim(subject.name))
      [] subject.tag = "Transparent" -> Transparent
      [] OTHER -> None

\* set_subject storing the content as it was handed in.
SetSubjectStoreRaw(t, position, subject) ==
    IF ~Contains(t, position) THEN [table |-> t, ret |-> FALSE]
    ELSE LET normalized == NormalizeSubject(subject)
         IN  IF MapGet(t.subjects, position) = normalized
             THEN [table |-> t, ret |-> FALSE]
             ELSE [table |-> [t EXCEPT !.subjects =
                                 IF normalized # None
                                 THEN MapInsert(t.subjects, position, subject)
                                 ELSE MapRemove(t.subjects, position)],
                   ret |-> TRUE]

\* set_subject without the comparison with the stored content.
SetSubjectNoCompare(t, position, subject) ==
    IF ~Contains(t, position) THEN [table |-> t, ret |-> FALSE]
    ELSE LET normalized == NormalizeSubject(subject)
         IN  [table |-> [t EXCEPT !.subjects =
                            IF normalized # None
                            THEN MapInsert(t.subjects, position, normalized)
                            ELSE MapRemove(t.subjects, position)],
              ret |-> TRUE]

\* Table::set_subject: [table, ret]
SetSubject(t, position, subject) ==
    IF ~Contains(t, position) THEN [table |-> t, ret |-> FALSE]
    ELSE LET normalized == NormalizeSubject(subject)
         IN  IF MapGet(t.subjects, position) = normalized
             THEN [table |-> t, ret |-> FALSE]
             ELSE [table |-> [t EXCEPT !.subjects =
                                 IF normalized # None
                                 THEN MapInsert(t.subjects, position, normalized)
                                 ELSE MapRemove(t.subjects, position)],
                   ret |-> TRUE]

\* cell_kind taking a position without an entry for Blocked.
CellKindAbsentBlocked(t, position) ==
    IF ~Contains(t, position) THEN None
    ELSE LET subject == SubjectAt(t, position)
         IN  IF subject # None /\ IsTransparent(subject) THEN TransparentKind
             ELSE IF subject = None \/ IsBlocked(subject) THEN Blocked
             ELSE Active

\* Table::cell_kind: None when out of bounds
CellKind(t, position) ==
    IF ~Contains(t, position) THEN None
    ELSE LET subject == SubjectAt(t, position)
         IN  IF subject # None /\ IsTransparent(subject) THEN TransparentKind
             ELSE IF subject # None /\ IsBlocked(subject) THEN Blocked
             ELSE Active

\* Table::is_inert
IsInert(t, position) == CellKind(t, position) \in {Blocked, TransparentKind}

\* Table::blocked_cells
BlockedCells(t) ==
    U32(Cardinality({p \in DOMAIN t.subjects : IsBlocked(t.subjects[p])}))

\* Table::transparent_cells
TransparentCells(t) ==
    U32(Cardinality({p \in DOMAIN t.subjects : IsTransparent(t.subjects[p])}))

\* u32::saturating_sub
SaturatingSub(a, b) == IF U32Lt(a, b) THEN U32(0) ELSE U32Sub(a, b).value

\* u32::saturating_add
SaturatingAdd(a, b) ==
    LET sum == U32Add(a, b)
    IN  IF sum.carry THEN U32MAX ELSE sum.value

\* Table::active_cells
ActiveCells(t) ==
    SaturatingSub(TotalCells(t), U32Add(BlockedCells(t), TransparentCells(t)).value)

\* iter_positions with x outer and y inner.
IterPositionsColumnMajor(t) ==
    [k \in 1..(RowCount(t) * ColumnCount(t)) |->
        Position((k - 1) \div RowCount(t), (k - 1) % RowCount(t))]

\* Table::iter_positions: row-major, y outer and x inner
IterPositions(t) ==
    [k \in 1..(RowCount(t) * ColumnCount(t)) |->
        Position((k - 1) % ColumnCount(t), (k - 1) \div ColumnCount(t))]

\* add_row with a wrapping addition.
AddRowWrapping(t) == [t EXCEPT !.row_count = U32Add(t.row_count, U32(1)).value]

\* Table::add_row
AddRow(t) == [t EXCEPT !.row_count = SaturatingAdd(t.row_count, U32(1))]

\* Table::add_column
AddColumn(t) == [t EXCEPT !.column_count = SaturatingAdd(t.column_count, U32(1))]

\* The loop of Table::remove_row over the drained map (HashMap order).
RECURSIVE RemoveRowLoop(_, _, _, _)
RemoveRowLoop(old, rest, next, row_index) ==
    IF rest = {} THEN next
    ELSE LET position == CHOOSE p \in rest : TRUE
             y == IF position.y > row_index THEN position.y - 1 ELSE position.y
         IN  RemoveRowLoop(old, rest \ {position},
                           IF position.y = row_index THEN next
                           ELSE MapInsert(next, Position(position.x, y), old[position]),
                           row_index)

\* remove_row that drops the row's entries and leaves the rows above it in
\* place.
RemoveRowNoShift(t, row_index) ==
    IF ~U32Lt(U32(row_index), t.row_count) \/ U32Le(t.row_count, U32(1))
    THEN [table |-> t, ret |-> FALSE]
    ELSE [table |-> MkTable(U32Sub(t.row_count, U32(1)).value, t.column_count,
                            [p \in {q \in DOMAIN t.subjects : q.y # row_index} |->
                                t.subjects[p]]),
          ret |-> TRUE]

\* remove_row without the minimum of one row.
RemoveRowNoMinimum(t, row_index) ==
    IF ~U32Lt(U32(row_index), t.row_count)
    THEN [table |-> t, ret |-> FALSE]
    ELSE [table |-> MkTable(U32Sub(t.row_count, U32(1)).value, t.column_count,
                            RemoveRowLoop(t.subjects, DOMAIN t.subjects, EmptyMap,
                                          row_index)),
          ret |-> TRUE]

\* Table::remove_row: [table, ret]
RemoveRow(t, row_index) ==
    IF ~U32Lt(U32(row_index), t.row_count) \/ U32Le(t.row_count, U32(1))
    THEN [table |-> t, ret |-> FALSE]
    ELSE [table |-> MkTable(U32Sub(t.row_count, U32(1)).value, t.column_count,
                            RemoveRowLoop(t.subjects, DOMAIN t.subjects, EmptyMap,
                                          row_index)),
          ret |-> TRUE]

\* The loop of Table::remove_column over the drained map (HashMap order).
RECURSIVE RemoveColumnLoop(_, _, _, _)
RemoveColumnLoop(old, rest, next, column_index) ==
    IF rest = {} THEN next
    ELSE LET position == CHOOSE p \in rest : TRUE
             x == IF position.x > column_index THEN position.x - 1 ELSE position.x
         IN  RemoveColumnLoop(old, rest \ {position},
                              IF position.x = column_index THEN next
                              ELSE MapInsert(next, Position(x, position.y), old[position]),
                              column_index)

\* remove_column refusing to go below two columns.
RemoveColumnKeepsTwo(t, column_index) ==
    IF ~U32Lt(U32(column_index), t.column_count) \/ U32Le(t.column_count, U32(2))
    THEN [table |-> t, ret |-> FALSE]
    ELSE [table |-> MkTable(t.row_count, U32Sub(t.column_count, U32(1)).value,
                            RemoveColumnLoop(t.subjects, DOMAIN t.subjects, EmptyMap,
                                             column_index)),
          ret |-> TRUE]

\* remove_column without the minimum of one column.
RemoveColumnNoMinimum(t, column_index) ==
    IF ~U32Lt(U32(column_index), t.column_count)
    THEN [table |-> t, ret |-> FALSE]
    ELSE [table |-> MkTable(t.row_count, U32Sub(t.column_count, U32(1)).value,
                            RemoveColumnLoop(t.subjects, DOMAIN t.subjects, EmptyMap,
                                             column_index)),
          ret |-> TRUE]

\* Table::remove_column: [table, ret]
RemoveColumn(t, column_index) ==
    IF ~U32Lt(U32(column_index), t.column_count) \/ U32Le(t.column_count, U32(1))
    THEN [table |-> t, ret |-> FALSE]
    ELSE [table |-> MkTable(t.row_count, U32Sub(t.column_count, U32(1)).value,
                            RemoveColumnLoop(t.subjects, DOMAIN t.subjects, EmptyMap,
                                             column_index)),
          ret |-> TRUE]

(* ------------------------- persistence codec --------------------------- *)

\* A JSON value as serde_json reads it: null, a string (its characters), a
\* number, an array (its items) or an object (its members, pairs of a key
\* and a value in the order of the text, so that a key can be repeated).
JsonNull == [tag |-> "null"]

JsonString(string) == [tag |-> "string", value |-> string]

JsonArray(items) == [tag |-> "array", items |-> items]

JsonObject(members) == [tag |-> "object", members |-> members]

\* A JSON number that fits u32 (an integer literal of 0 to u32::MAX, held
\* in limbs), and the numbers that do not: form is "negative" for an
\* integer below zero, "wide" for an integer above u32::MAX and "float" for
\* a literal with a fraction or an exponent.
JsonU32(w) == [tag |-> "number", form |-> "u32", value |-> w]

JsonNumber(form) == [tag |-> "number", form |-> form]

\* A text that is no JSON document; the empty text is one.
NotJson == [tag |-> "invalid"]

\* Option::Some of an Option<String>
SomeString(string) == [tag |-> "SomeString", value |-> string]

\* The result of a Deserialize that fails.
DeserializeErr == [ok |-> FALSE, value |-> None]

\* The values an object holds under a key, in the order of the text.
Members(json, key) == SelectSeq(json.members, LAMBDA m : m[1] = key)

\* #[serde(rename_all = "snake_case")] of TableConfigCellKind: the name of
\* a variant as a JSON string
SnakeCase(kind) ==
    CASE kind = "Active" -> <<"a", "c", "t", "i", "v", "e">>
      [] kind = "Blocked" -> <<"b", "l", "o", "c", "k", "e", "d">>
      [] kind = "Transparent" ->
            <<"t", "r", "a", "n", "s", "p", "a", "r", "e", "n", "t">>

\* The same names as keys of an object.
SnakeCaseKey(kind) ==
    CASE kind = "Active" -> "active"
      [] kind = "Blocked" -> "blocked"
      [] kind = "Transparent" -> "transparent"

TableConfigCellKindALL == {"Active", "Blocked", "Transparent"}

\* TableConfigSubject::from_subject: the struct [x, y, kind, name], name an
\* Option<String>
FromSubject(position, subject) ==
    [x |-> position.x, y |-> position.y,
     kind |-> CASE subject.tag = "Transparent" -> "Transparent"
                [] subject.tag = "Block" -> "Blocked"
                [] subject.tag = "Some" -> "Active",
     name |-> IF subject.tag = "Transparent" THEN None
              ELSE SomeString(subject.name)]

\* Option::unwrap_or_default on an Option<String>
UnwrapOrDefault(name) == IF name = None THEN <<>> ELSE name.value

\* into_subject with the kinds "blocked" and "active" exchanged.
IntoSubjectKindsSwapped(c) ==
    <<Position(c.x, c.y),
      CASE c.kind = "Transparent" -> Transparent
        [] c.kind = "Blocked" -> Some(UnwrapOrDefault(c.name))
        [] c.kind = "Active" -> Block(UnwrapOrDefault(c.name))>>

\* TableConfigSubject::into_subject: <<position, subject>>
IntoSubject(c) ==
    <<Position(c.x, c.y),
      CASE c.kind = "Transparent" -> Transparent
        [] c.kind = "Blocked" -> Block(UnwrapOrDefault(c.name))
        [] c.kind = "Active" -> Some(UnwrapOrDefault(c.name))>>

\* The loop of TableConfig::from_table over iter_positions.
RECURSIVE FromTableLoop(_, _, _)
FromTableLoop(t, positions, subjects) ==
    IF positions = <<>> THEN subjects
    ELSE FromTableLoop(t, Tail(positions),
                       IF SubjectAt(t, Head(positions)) # None
                       THEN Append(subjects,
                                   FromSubject(Head(positions),
                                               SubjectAt(t, Head(positions))))
                       ELSE subjects)

\* TableConfig::from_table: the struct [row_count, column_count, subjects]
FromTable(t) ==
    [row_count |-> t.row_count, column_count |-> t.column_count,
     subjects |-> FromTableLoop(t, IterPositions(t), <<>>)]

\* TableConfig::into_table
IntoTable(c) ==
    TableNew(c.row_count, c.column_count,
             [k \in 1..Len(c.subjects) |-> IntoSubject(c.subjects[k])])

\* Serialize of TableConfigSubject: a JSON object with the members x, y,
\* kind and name, in the order of the fields.
SerializeSubject(c) ==
    JsonObject(<< <<"x", JsonU32(U32(c.x))>>,
                  <<"y", JsonU32(U32(c.y))>>,
                  <<"kind", JsonString(SnakeCase(c.kind))>>,
                  <<"name", IF c.name = None THEN JsonNull
                            ELSE JsonString(c.name.value)>> >>)

\* Serialize of TableConfig
SerializeTableConfig(c) ==
    JsonObject(<< <<"row_count", JsonU32(c.row_count)>>,
                  <<"column_count", JsonU32(c.column_count)>>,
                  <<"subjects",
                    JsonArray([k \in 1..Len(c.subjects) |->
                                  SerializeSubject(c.subjects[k])])>> >>)

\* Serialize of AppConfigFile
SerializeAppConfigFile(c) ==
    JsonObject(<< <<"default_table", SerializeTableConfig(c.default_table)>> >>)

\* Deserialize of u32: [ok, value], the value in limbs.  Only an integer
\* literal of 0 to u32::MAX decodes.
DeserializeU32(json) ==
    IF json.tag = "number" /\ json.form = "u32"
    THEN [ok |-> TRUE, value |-> json.value]
    ELSE DeserializeErr

\* Deserialize of Option<String>: null is None, a string is Some of it.
DeserializeOptionString(json) ==
    IF json.tag = "null" THEN [ok |-> TRUE, value |-> None]
    ELSE IF json.tag = "string" THEN [ok |-> TRUE, value |-> SomeString(json.value)]
    ELSE DeserializeErr

\* Deserialize of TableConfigCellKind: the snake_case name of a variant as
\* a string, or an object with that name as its one key and null under it.
DeserializeCellKind(json) ==
    IF json.tag = "string"
          /\ \E kind \in TableConfigCellKindALL : SnakeCase(kind) = json.value
    THEN [ok |-> TRUE,
          value |-> CHOOSE kind \in TableConfigCellKindALL :
                       SnakeCase(kind) = json.value]
    ELSE IF json.tag = "object" /\ Len(json.members) = 1
               /\ \E kind \in TableConfigCellKindALL :
                     SnakeCaseKey(kind) = json.members[1][1]
               /\ json.members[1][2].tag = "null"
    THEN [ok |-> TRUE,
          value |-> CHOOSE kind \in TableConfigCellKindALL :
                       SnakeCaseKey(kind) = json.members[1][1]]
    ELSE DeserializeErr

\* The fields of a TableConfigSubject decoded from the values found for
\* them.  The struct holds x and y as numbers (below 2^31 here).
SubjectOfFields(x, y, kind, name) ==
    IF /\ DeserializeU32(x).ok /\ DeserializeU32(y).ok
       /\ DeserializeCellKind(kind).ok /\ DeserializeOptionString(name).ok
    THEN [ok |-> TRUE,
          value |-> [x |-> U32ToNat(DeserializeU32(x).value),
                     y |-> U32ToNat(DeserializeU32(y).value),
                     kind |-> DeserializeCellKind(kind).value,
                     name |-> DeserializeOptionString(name).value]]
    ELSE DeserializeErr

\* Deserialize of TableConfigSubject: [ok, value].  From an array, the four
\* fields in their order.  From an object, x, y and kind once each and name
\* at most once, a missing name being None; a key the struct does not have
\* is skipped with its value, a key of the struct that comes twice is an
\* error.
DeserializeSubject(json) ==
    IF json.tag = "array"
    THEN IF Len(json.items) = 4
         THEN SubjectOfFields(json.items[1], json.items[2], json.items[3],
                              json.items[4])
         ELSE DeserializeErr
    ELSE IF json.tag = "object"
    THEN LET x    == Members(json, "x")
             y    == Members(json, "y")
             kind == Members(json, "kind")
             name == Members(json, "name")
         IN  IF Len(x) = 1 /\ Len(y) = 1 /\ Len(kind) = 1 /\ Len(name) <= 1
             THEN SubjectOfFields(x[1][2], y[1][2], kind[1][2],
                                  IF name = <<>> THEN JsonNull ELSE name[1][2])
             ELSE DeserializeErr
    ELSE DeserializeErr

\* The fields of a TableConfig decoded from the values found for them;
\* subjects is an array whose items all decode.
TableConfigOfFields(row_count, column_count, subjects) ==
    IF /\ DeserializeU32(row_count).ok /\ DeserializeU32(column_count).ok
       /\ subjects.tag = "array"
       /\ \A k \in 1..Len(subjects.items) : DeserializeSubject(subjects.items[k]).ok
    THEN [ok |-> TRUE,
          value |-> [row_count |-> DeserializeU32(row_count).value,
                     column_count |-> DeserializeU32(column_count).value,
                     subjects |-> [k \in 1..Len(subjects.items) |->
                                      DeserializeSubject(subjects.items[k]).value]]]
    ELSE DeserializeErr

\* Deserialize of TableConfig: [ok, value], from an array of the three
\* fields or from an object that holds each of them once.
DeserializeTableConfig(json) ==
    IF json.tag = "array"
    THEN IF Len(json.items) = 3
         THEN TableConfigOfFields(json.items[1], json.items[2], json.items[3])
         ELSE DeserializeErr
    ELSE IF json.tag = "object"
    THEN LET row_count    == Members(json, "row_count")
             column_count == Members(json, "column_count")
             subjects     == Members(json, "subjects")
         IN  IF Len(row_count) = 1 /\ Len(column_count) = 1 /\ Len(subjects) = 1
             THEN TableConfigOfFields(row_count[1][2], column_count[1][2],
                                      subjects[1][2])
             ELSE DeserializeErr
    ELSE DeserializeErr

\* Deserialize of AppConfigFile: [ok, value], from an array of one item or
\* from an object that holds default_table once.
DeserializeAppConfigFile(json) ==
    LET field == IF json.tag = "array" THEN json.items
                 ELSE IF json.tag = "object"
                 THEN [k \in 1..Len(Members(json, "default_table")) |->
                          Members(json, "default_table")[k][2]]
                 ELSE <<>>
    IN  IF Len(field) = 1 /\ DeserializeTableConfig(field[1]).ok
        THEN [ok |-> TRUE,
              value |-> [default_table |-> DeserializeTableConfig(field[1]).value]]
        ELSE DeserializeErr

\* A file that is not there, and one that is there but cannot be read as
\* text.
Missing == [unreadable |-> TRUE, exists |-> FALSE]

Unreadable == [unreadable |-> TRUE, exists |-> TRUE]

\* What fs::write does with the text: it opens the file with create and
\* truncate and writes the text.  "written": both succeed.  "refused": the
\* open fails and the file is as it was.  "cut": the open succeeds and the
\* write fails, what is left is the empty text or a beginning of the text,
\* no JSON document either way.
WriteOutcomes == {"written", "refused", "cut"}

\* Table::write_config on a path that holds before: [ok, file], file what
\* the path holds afterwards.
WriteConfig(t, before, outcome) ==
    CASE outcome = "written" ->
            [ok |-> TRUE,
             file |-> SerializeAppConfigFile([default_table |-> FromTable(t)])]
      [] outcome = "refused" -> [ok |-> FALSE, file |-> before]
      [] outcome = "cut" -> [ok |-> FALSE, file |-> NotJson]

\* load_config trying the bare schema before the wrapped one.
LoadConfigBareFirst(file) ==
    IF file \in {Missing, Unreadable} THEN [ok |-> FALSE, table |-> None]
    ELSE LET wrapped == DeserializeAppConfigFile(file)
             bare    == DeserializeTableConfig(file)
         IN  IF bare.ok
             THEN [ok |-> TRUE, table |-> IntoTable(bare.value)]
             ELSE IF wrapped.ok
             THEN [ok |-> TRUE, table |-> IntoTable(wrapped.value.default_table)]
             ELSE [ok |-> FALSE, table |-> None]

\* load_config handing out an empty 1 x 1 grid where neither schema decodes.
LoadConfigOrDefault(file) ==
    IF file \in {Missing, Unreadable} THEN [ok |-> FALSE, table |-> None]
    ELSE LET wrapped == DeserializeAppConfigFile(file)
             bare    == DeserializeTableConfig(file)
         IN  IF wrapped.ok
             THEN [ok |-> TRUE, table |-> IntoTable(wrapped.value.default_table)]
             ELSE IF bare.ok
             THEN [ok |-> TRUE, table |-> IntoTable(bare.value)]
             ELSE [ok |-> TRUE, table |-> TableNew(U32(1), U32(1), <<>>)]

\* Table::load_config: [ok, table]; fs::read_to_string, then the wrapped
\* schema, then the bare one.
LoadConfig(file) ==
    IF file \in {Missing, Unreadable} THEN [ok |-> FALSE, table |-> None]
    ELSE LET wrapped == DeserializeAppConfigFile(file)
             bare    == DeserializeTableConfig(file)
         IN  IF wrapped.ok
             THEN [ok |-> TRUE, table |-> IntoTable(wrapped.value.default_table)]
             ELSE IF bare.ok
             THEN [ok |-> TRUE, table |-> IntoTable(bare.value)]
             ELSE [ok |-> FALSE, table |-> None]

(* --------------------------- default_table ----------------------------- *)

NAMES ==
    << <<"A", "l", "i", "c", "e">>,
       <<"B", "e", "n">>,
       <<"C", "i", "n", "d", "y">>,
       <<"D", "y", "l", "a", "n">>,
       <<"E", "t", "h", "a", "n">>,
       <<"F", "i", "o", "n", "a">>,
       <<"G", "a", "v", "i", "n">>,
       <<"H", "e", "l", "e", "n">>,
       <<"I", "v", "y">>,
       <<"J", "a", "s", "o", "n">>,
       <<"K", "i", "r", "a">>,
       <<"L", "e", "o">>,
       <<"M", "i", "l", "a">>,
       <<"N", "o", "r", "a">>,
       <<"O", "w", "e", "n">>,
       <<"P", "e", "n", "n", "y">>,
       <<"Q", "u", "i", "n", "n">>,
       <<"R", "u", "b", "y">>,
       <<"S", "a", "m">>,
       <<"T", "i", "n", "a">>,
       <<"U", "m", "a">>,
       <<"V", "i", "n", "c", "e">>,
       <<"W", "e", "n", "d", "y">>,
       <<"Z", "a", "c", "k">> >>

\* format!("Block {}", n) for n in 1..=9
BlockLabel(n) ==
    <<"B", "l", "o", "c", "k", " ">>
        \o <<(<<"1", "2", "3", "4", "5", "6", "7", "8", "9">>)[n]>>

\* The subject of one cell of default_table from what the generator draws
\* for it: roll in 0..9, number in 1..9, name an index of NAMES.
DefaultSubject(draw) ==
    IF draw.roll = 0 THEN Transparent
    ELSE IF draw.roll <= 2 THEN Block(BlockLabel(draw.number))
    ELSE Some(NAMES[draw.name])

\* Table::default_table: 5 rows and 6 columns, draws[k] is what the generator
\* draws for the k-th cell in row-major order.
DefaultTable(draws) ==
    TableNew(U32(5), U32(6),
             [k \in 1..30 |->
                <<Position((k - 1) % 6, (k - 1) \div 6), DefaultSubject(draws[k])>>])

(* -------------------------- AttendanceBook ----------------------------- *)

\* The loop of AttendanceBook::new over iter_positions.
RECURSIVE BookNewLoop(_, _, _)
BookNewLoop(t, positions, statuses) ==
    IF positions = <<>> THEN statuses
    ELSE BookNewLoop(t, Tail(positions),
                     IF ~IsInert(t, Head(positions))
                     THEN MapInsert(statuses, Head(positions), "Unchecked")
                     ELSE statuses)

\* AttendanceBook::new without the check of the cell's kind.
BookNewAllCells(t) ==
    [p \in {IterPositions(t)[k] : k \in DOMAIN IterPositions(t)} |-> "Unchecked"]

\* AttendanceBook::new
BookNew(t) == BookNewLoop(t, IterPositions(t), EmptyMap)

\* Option::None of an Option<AttendanceStatus>; a string, as the statuses
\* are, so that the two can be compared.
NoStatus == "None"

\* AttendanceBook::status_at
StatusAt(statuses, position) ==
    IF position \in DOMAIN statuses THEN statuses[position] ELSE NoStatus

\* The retain of reconcile_with_table without the check of the cell's kind.
ReconcileRetainInBounds(statuses, t) ==
    [p \in {q \in DOMAIN statuses : Contains(t, q)} |-> statuses[p]]

\* HashMap::retain with the predicate of reconcile_with_table
ReconcileRetain(statuses, t) ==
    [p \in {q \in DOMAIN statuses : Contains(t, q) /\ ~IsInert(t, q)} |-> statuses[p]]

\* HashMap::entry(position).or_default()
EntryOrDefault(statuses, position) ==
    IF position \in DOMAIN statuses THEN statuses
    ELSE MapInsert(statuses, position, AttendanceStatusDefault)

\* The second phase of reconcile_with_table leaving after its first insertion.
RECURSIVE ReconcileLoopFirstOnly(_, _, _)
ReconcileLoopFirstOnly(t, positions, statuses) ==
    IF positions = <<>> THEN statuses
    ELSE IF ~IsInert(t, Head(positions)) /\ Head(positions) \notin DOMAIN statuses
    THEN MapInsert(statuses, Head(positions), AttendanceStatusDefault)
    ELSE ReconcileLoopFirstOnly(t, Tail(positions), statuses)

\* The second phase of reconcile_with_table over iter_positions.
RECURSIVE ReconcileLoop(_, _, _)
ReconcileLoop(t, positions, statuses) ==
    IF positions = <<>> THEN statuses
    ELSE ReconcileLoop(t, Tail(positions),
                       IF ~IsInert(t, Head(positions))
                       THEN EntryOrDefault(statuses, Head(positions))
                       ELSE statuses)

\* reconcile_with_table rebuilding the map from the table.
ReconcileFromScratch(statuses, t) == BookNew(t)

\* AttendanceBook::reconcile_with_table
\* reconcile_with_table doing nothing.
ReconcileSkipped(statuses, t) == statuses

ReconcileWithTable(statuses, t) ==
    ReconcileLoop(t, IterPositions(t), ReconcileRetain(statuses, t))

\* update_status without the check of the cell's kind.
UpdateStatusAnyKind(statuses, t, position, next_status) ==
    IF ~Contains(t, position)
    THEN [statuses |-> statuses, ret |-> FALSE]
    ELSE LET entered == EntryOrDefault(statuses, position)
         IN  IF entered[position] = next_status
             THEN [statuses |-> entered, ret |-> FALSE]
             ELSE [statuses |-> [entered EXCEPT ![position] = next_status],
                   ret |-> TRUE]

\* update_status without the comparison with the current status.
UpdateStatusNoCompare(statuses, t, position, next_status) ==
    IF ~Contains(t, position) \/ IsInert(t, position)
    THEN [statuses |-> statuses, ret |-> FALSE]
    ELSE [statuses |-> MapInsert(statuses, position, next_status), ret |-> TRUE]

\* AttendanceBook::update_status: [statuses, ret]
UpdateStatus(statuses, t, position, next_status) ==
    IF ~Contains(t, position) \/ IsInert(t, position)
    THEN [statuses |-> statuses, ret |-> FALSE]
    ELSE LET entered == EntryOrDefault(statuses, position)
         IN  IF entered[position] = next_status
             THEN [statuses |-> entered, ret |-> FALSE]
             ELSE [statuses |-> [entered EXCEPT ![position] = next_status],
                   ret |-> TRUE]

\* Option<AttendanceStatus>::unwrap_or_default
StatusOrDefault(status) ==
    IF status = NoStatus THEN AttendanceStatusDefault ELSE status

\* u32 `+= 1`
Increment(w) == U32Add(w, U32(1)).value

\* The loop of statistics that also counts Blocked and Transparent cells.
RECURSIVE StatisticsLoopAllCells(_, _, _, _)
StatisticsLoopAllCells(statuses, t, positions, tally) ==
    IF positions = <<>> THEN tally
    ELSE LET status == StatusOrDefault(StatusAt(statuses, Head(positions)))
         IN  StatisticsLoopAllCells(statuses, t, Tail(positions),
                CASE status = "Checked" ->
                        [tally EXCEPT !.checked = Increment(tally.checked)]
                  [] status = "Unchecked" ->
                        [tally EXCEPT !.unchecked = Increment(tally.unchecked)]
                  [] status = "Marked" ->
                        [tally EXCEPT !.marked = Increment(tally.marked)])

\* The loop of AttendanceBook::statistics over iter_positions.
RECURSIVE StatisticsLoop(_, _, _, _)
StatisticsLoop(statuses, t, positions, tally) ==
    IF positions = <<>> THEN tally
    ELSE LET status == StatusOrDefault(StatusAt(statuses, Head(positions)))
         IN  StatisticsLoop(statuses, t, Tail(positions),
                IF IsInert(t, Head(positions)) THEN tally
                ELSE CASE status = "Checked" ->
                            [tally EXCEPT !.checked = Increment(tally.checked)]
                       [] status = "Unchecked" ->
                            [tally EXCEPT !.unchecked = Increment(tally.unchecked)]
                       [] status = "Marked" ->
                            [tally EXCEPT !.marked = Increment(tally.marked)])

\* AttendanceBook::statistics: an AttendanceStatistics
Statistics(statuses, t) ==
    LET tally == StatisticsLoop(statuses, t, IterPositions(t),
                     [checked |-> U32(0), unchecked |-> U32(0), marked |-> U32(0)])
    IN  [checked |-> tally.checked, unchecked |-> tally.unchecked,
         marked |-> tally.marked,
         active_total |-> ActiveCells(t), blocked_total |-> BlockedCells(t)]

\* AttendanceStatistics::completed_count: [value, carry]
CompletedCount(statistics) == U32Add(statistics.checked, statistics.marked)

\* AttendanceStatistics::completed_ratio_percent: [value, overflow].  value is
\* what a build without overflow checks returns; overflow says that
\* checked + marked or its hundredfold passes u32::MAX (a build with overflow
\* checks panics there).
CompletedRatioPercent(statistics) ==
    IF statistics.active_total = U32(0) THEN [value |-> U32(0), overflow |-> FALSE]
    ELSE LET count   == CompletedCount(statistics)
             product == U32MulSmall(count.value, 100)
         IN  [value |-> U32Div(product.value, statistics.active_total),
              overflow |-> count.carry \/ product.carry]

(* ---------------------------- export text ------------------------------ *)

\* A local date and time is [year, month, day, hour, minute, second].

NOON_START == 11 * 60

NOON_END == 15 * 60 + 30

\* The day-period labels, as sequences of code points:
\* "上午", "中午" and "下午".
Morning == <<19978, 21320>>

Noon == <<20013, 21320>>

Afternoon == <<19979, 21320>>

\* period_string with the end of noon left out.
PeriodStringNoonExclusive(time) ==
    LET total_minutes == time.hour * 60 + time.minute
    IN  IF total_minutes >= NOON_START /\ total_minutes < NOON_END THEN Noon
        ELSE IF total_minutes < NOON_START THEN Morning
        ELSE Afternoon

\* SystemTimeExt::period_string on the local time
PeriodString(time) ==
    LET total_minutes == time.hour * 60 + time.minute
    IN  IF total_minutes >= NOON_START /\ total_minutes <= NOON_END THEN Noon
        ELSE IF total_minutes < NOON_START THEN Morning
        ELSE Afternoon

\* A natural number in decimal digits: all its digits, with zeros in front
\* where it has fewer than width of them.
RECURSIVE Decimal(_, _)
Decimal(n, width) ==
    LET digit == (<<"0", "1", "2", "3", "4", "5", "6", "7", "8", "9">>)[(n % 10) + 1]
    IN  IF n < 10 /\ width <= 1 THEN <<digit>>
        ELSE Append(Decimal(n \div 10, width - 1), digit)

\* The year as "%Y" writes it: four digits for the years 0 to 9999, and a
\* sign followed by at least four digits for the years outside them.
FormattedYear(year) ==
    IF year >= 0 /\ year <= 9999 THEN Decimal(year, 4)
    ELSE IF year < 0 THEN <<"-">> \o Decimal(0 - year, 4)
    ELSE <<"+">> \o Decimal(year, 4)

\* SystemTimeExt::formatted_string: "%m.%d.%Y %H:%M:%S"
FormattedString(time) ==
    Decimal(time.month, 2) \o <<".">> \o Decimal(time.day, 2) \o <<".">>
        \o FormattedYear(time.year) \o <<" ">> \o Decimal(time.hour, 2) \o <<":">>
        \o Decimal(time.minute, 2) \o <<":">> \o Decimal(time.second, 2)

\* The loop of names_by_status listing the label of a Block as well.
RECURSIVE NamesByStatusLoopAnyName(_, _, _, _, _)
NamesByStatusLoopAnyName(statuses, t, positions, status, names) ==
    IF positions = <<>> THEN names
    ELSE LET position == Head(positions)
             subject  == SubjectAt(t, position)
         IN  NamesByStatusLoopAnyName(statuses, t, Tail(positions), status,
                IF StatusAt(statuses, position) # status THEN names
                ELSE IF subject # None /\ subject.tag \in {"Some", "Block"}
                THEN Append(names, subject.name)
                ELSE names)

\* The loop of AttendanceBook::names_by_status over iter_positions.
RECURSIVE NamesByStatusLoop(_, _, _, _, _)
NamesByStatusLoop(statuses, t, positions, status, names) ==
    IF positions = <<>> THEN names
    ELSE LET position == Head(positions)
             subject  == SubjectAt(t, position)
         IN  NamesByStatusLoop(statuses, t, Tail(positions), status,
                IF StatusAt(statuses, position) # status THEN names
                ELSE IF subject # None /\ subject.tag = "Some"
                THEN Append(names, subject.name)
                ELSE names)

\* AttendanceBook::names_by_status
NamesByStatus(statuses, t, status) ==
    NamesByStatusLoop(statuses, t, IterPositions(t), status, <<>>)

\* AttendanceBook::format_names: names.join(", ")
RECURSIVE FormatNames(_)
FormatNames(names) ==
    IF names = <<>> THEN <<>>
    ELSE IF Len(names) = 1 THEN names[1]
    ELSE names[1] \o <<",", " ">> \o FormatNames(Tail(names))

\* AttendanceBook::build_export_text_zh: the parts the text is formatted
\* from, in their order.  overflow says that completed_ratio_percent passes
\* u32::MAX (a build with overflow checks panics there).
BuildExportTextZh(statuses, t, time) ==
    LET statistics == Statistics(statuses, t)
        ratio      == CompletedRatioPercent(statistics)
    IN  [time |-> FormattedString(time),
         period |-> PeriodString(time),
         unchecked |-> statistics.unchecked,
         percent |-> ratio.value,
         unchecked_names |-> FormatNames(NamesByStatus(statuses, t, "Unchecked")),
         marked |-> statistics.marked,
         marked_names |-> FormatNames(NamesByStatus(statuses, t, "Marked")),
         overflow |-> ratio.overflow]

(* ------------------------------ inputs --------------------------------- *)

\* Names handed to Subject::Some: blank, plain and padded with a tab.
NameInputs == {<<" ">>, <<"a">>, <<"\t", "c">>}

\* Labels handed to Subject::Block: blank and followed by a line feed.
LabelInputs == {<<" ">>, <<"b", "\n">>}

SubjectInputs ==
    {Transparent} \cup {Block(n) : n \in LabelInputs} \cup {Some(n) : n \in NameInputs}

\* row_count / column_count handed to Table::new at construction.
DimensionInputs == {U32(n) : n \in 0..2}

\* Positions handed to the operations: those of a 2 x 2 grid, and one that is
\* out of bounds of every grid smaller than 3 x 3.
PositionInputs ==
    {Position(x, y) : x \in 0..1, y \in 0..1} \cup {Position(2, 2)}

\* Row / column indices handed to remove_row / remove_column.
RowIndexInputs == 0..2
ColumnIndexInputs == 0..2

EntryInputs == {<<p, s>> : p \in PositionInputs, s \in SubjectInputs}

\* The entries of a grid with an Occupied and a Blocked cell.
TwoEntries ==
    << <<Position(0, 0), Some(<<"A", "m", "y">>)>>,
       <<Position(1, 0), Block(<<"B", "1">>)>> >>

\* Entry lists handed to Table::new at construction: none, a single entry,
\* or the two of TwoEntries.
EntryListInputs == {<<>>} \cup {<<e>> : e \in EntryInputs} \cup {TwoEntries}

\* The members x, y and kind of a subject of a config file, and the member
\* name.
SubjectMembers(x, y, kind) ==
    << <<"x", JsonU32(U32(x))>>, <<"y", JsonU32(U32(y))>>,
       <<"kind", JsonString(kind)>> >>

NameMember(name) == << <<"name", name>> >>

\* A table object of a config file, the document that wraps one, and a
\* document that has no field of either schema.
TableObject(row_count, column_count, subjects) ==
    JsonObject(<< <<"row_count", JsonU32(row_count)>>,
                  <<"column_count", JsonU32(column_count)>>,
                  <<"subjects", JsonArray(subjects)>> >>)

Wrapped(table_object) == JsonObject(<< <<"default_table", table_object>> >>)

VersionOnly == JsonObject(<< <<"version", JsonU32(U32(1))>> >>)

\* The subjects of the config files read at startup: an Occupied cell with a
\* name, with a null, a missing and a blank name, a Blocked cell without a
\* label written as an array, a Transparent cell whose kind is written as
\* an object, and a position out of bounds.
ConfigSubjectInputs ==
    { JsonObject(SubjectMembers(0, 0, <<"a", "c", "t", "i", "v", "e">>)
                    \o NameMember(JsonString(<<"Z", "o", "e">>))),
      JsonObject(SubjectMembers(0, 0, <<"a", "c", "t", "i", "v", "e">>)
                    \o NameMember(JsonNull)),
      JsonObject(SubjectMembers(0, 0, <<"a", "c", "t", "i", "v", "e">>)),
      JsonObject(SubjectMembers(0, 0, <<"a", "c", "t", "i", "v", "e">>)
                    \o NameMember(JsonString(<<" ">>))),
      JsonArray(<<JsonU32(U32(1)), JsonU32(U32(0)),
                  JsonString(<<"b", "l", "o", "c", "k", "e", "d">>), JsonNull>>),
      JsonObject(<< <<"x", JsonU32(U32(0))>>, <<"y", JsonU32(U32(1))>>,
                    <<"kind", JsonObject(<< <<"transparent", JsonNull>> >>)>>,
                    <<"name", JsonNull>> >>),
      JsonObject(SubjectMembers(2, 2, <<"a", "c", "t", "i", "v", "e">>)
                    \o NameMember(JsonString(<<"a">>))) }

\* The table objects of the config files read at startup.
TableConfigInputs ==
    { TableObject(r, c, ss) :
        r \in DimensionInputs, c \in DimensionInputs,
        ss \in {<<>>} \cup {<<j>> : j \in ConfigSubjectInputs} }

\* The config files found at startup: wrapped and bare documents, a document
\* of neither schema, a text that is no JSON, an unreadable file and no
\* file.
FileInputs ==
    {Wrapped(c) : c \in TableConfigInputs} \cup TableConfigInputs
        \cup {VersionOnly, NotJson, Unreadable, Missing}

\* What the generator of default_table draws for a cell.
DrawInputs ==
    { [roll |-> 0, number |-> 1, name |-> 1],
      [roll |-> 2, number |-> 9, name |-> 1],
      [roll |-> 3, number |-> 1, name |-> 24] }

\* Draws for the 30 cells that differ from cell to cell.
MixedDrawList ==
    [k \in 1..30 |-> [roll |-> (k * 3) % 10, number |-> 1 + (k % 9),
                      name |-> 1 + (k % 24)]]

\* What the generator draws for the 30 cells: the same for every cell, or
\* the draws of MixedDrawList.
DrawListInputs ==
    {[k \in 1..30 |-> d] : d \in DrawInputs} \cup {MixedDrawList}

(* --------------------------- specification ----------------------------- *)

\* A call that returned the boolean ret (TRUE where the operation returns
\* nothing), and a call that returned the value out.
Op(op, args, ret) == [op |-> op, args |-> args, ret |-> ret]

OpOut(op, args, out) == [op |-> op, args |-> args, ret |-> TRUE, out |-> out]

\* The table of main(): the one of the config file if there is a file and
\* it loads, default_table() otherwise.
StartupTable(file, draws) ==
    IF file # Missing /\ LoadConfig(file).ok THEN LoadConfig(file).table
    ELSE DefaultTable(draws)

\* The grid and the tracker driven directly, without the views: the view
\* state keeps its initial values (AppMode::default(), no panel, no file).
CoreOnly ==
    mode = "CheckIn" /\ panel = None /\ config_file = Missing /\ dialog = None

\* Construction: Table::new on a caller-supplied entry list or the table of
\* main(), then AttendanceBook::new on the table (ViewState::new).
Init ==
    /\ \/ \E row_count \in DimensionInputs, column_count \in DimensionInputs,
             entries \in EntryListInputs :
               table = TableNew(row_count, column_count, entries)
       \/ \E file \in FileInputs, draws \in DrawListInputs :
               table = StartupTable(file, draws)
    /\ attendance = BookNew(table)
    /\ last = Op("new", <<>>, TRUE)
    /\ steps = 0
    /\ CoreOnly

Step == steps < MaxSteps /\ steps' = steps + 1

DoSetSubject(position, subject) ==
    LET r == SetSubject(table, position, subject)
    IN  /\ Step
        /\ UNCHANGED ui
        /\ table' = r.table
        /\ last' = Op("set_subject", <<position, subject>>, r.ret)
        /\ UNCHANGED attendance

DoAddRow ==
    /\ Step
    /\ UNCHANGED ui
    /\ table' = AddRow(table)
    /\ last' = Op("add_row", <<>>, TRUE)
    /\ UNCHANGED attendance

DoAddColumn ==
    /\ Step
    /\ UNCHANGED ui
    /\ table' = AddColumn(table)
    /\ last' = Op("add_column", <<>>, TRUE)
    /\ UNCHANGED attendance

DoRemoveRow(row_index) ==
    LET r == RemoveRow(table, row_index)
    IN  /\ Step
        /\ UNCHANGED ui
        /\ table' = r.table
        /\ last' = Op("remove_row", <<row_index>>, r.ret)
        /\ UNCHANGED attendance

DoRemoveColumn(column_index) ==
    LET r == RemoveColumn(table, column_index)
    IN  /\ Step
        /\ UNCHANGED ui
        /\ table' = r.table
        /\ last' = Op("remove_column", <<column_index>>, r.ret)
        /\ UNCHANGED attendance

DoBookNew ==
    /\ Step
    /\ UNCHANGED ui
    /\ attendance' = BookNew(table)
    /\ last' = Op("book_new", <<>>, TRUE)
    /\ UNCHANGED table

DoReconcile ==
    /\ Step
    /\ UNCHANGED ui
    /\ attendance' = ReconcileWithTable(attendance, table)
    /\ last' = Op("reconcile", <<>>, TRUE)
    /\ UNCHANGED table

DoUpdateStatus(position, next_status) ==
    LET r == UpdateStatus(attendance, table, position, next_status)
    IN  /\ Step
        /\ UNCHANGED ui
        /\ attendance' = r.statuses
        /\ last' = Op("update_status", <<position, next_status>>, r.ret)
        /\ UNCHANGED table

\* AttendanceBook::statistics; out is the AttendanceStatistics.
DoStatistics ==
    /\ Step
    /\ UNCHANGED ui
    /\ last' = OpOut("statistics", <<>>, Statistics(attendance, table))
    /\ UNCHANGED <<table, attendance>>

\* completed_ratio_percent of the AttendanceStatistics just returned, in a
\* build with or without overflow checks: out is [panic, value].
DoCompletedRatioPercent(overflow_checks) ==
    /\ last.op = "statistics"
    /\ Step
    /\ UNCHANGED ui
    /\ last' = OpOut("completed_ratio_percent", <<last.out, overflow_checks>>,
                  LET r == CompletedRatioPercent(last.out)
                  IN  IF overflow_checks /\ r.overflow
                      THEN [panic |-> TRUE, value |-> U32(0)]
                      ELSE [panic |-> FALSE, value |-> r.value])
    /\ UNCHANGED <<table, attendance>>

\* Table::write_config(config_file); out is [ok, file], file what the path
\* holds afterwards.
DoWriteConfig(outcome) ==
    /\ Step
    /\ last' = OpOut("write_config", <<outcome>>,
                  WriteConfig(table, config_file, outcome))
    /\ config_file' = last'.out.file
    /\ UNCHANGED <<table, attendance, mode, panel, dialog>>

\* Table::load_config(config_file); out is [ok, table].  The table is a new
\* value handed to the caller.
DoLoadConfig ==
    /\ Step
    /\ UNCHANGED ui
    /\ last' = OpOut("load_config", <<>>, LoadConfig(config_file))
    /\ UNCHANGED <<table, attendance>>

\* The operations of the core, one at a time.  The writes drawn here
\* succeed; the writes that fail are drawn next to a config file
\* (NextConfig) and in the views (NextUi).
Next ==
    \/ \E position \in PositionInputs, subject \in SubjectInputs \cup {None} :
          DoSetSubject(position, subject)
    \/ DoStatistics
    \/ \E overflow_checks \in BOOLEAN : DoCompletedRatioPercent(overflow_checks)
    \/ DoWriteConfig("written")
    \/ DoAddRow
    \/ DoAddColumn
    \/ \E row_index \in RowIndexInputs : DoRemoveRow(row_index)
    \/ \E column_index \in ColumnIndexInputs : DoRemoveColumn(column_index)
    \/ DoBookNew
    \/ DoReconcile
    \/ \E position \in PositionInputs, next_status \in AttendanceStatusALL :
          DoUpdateStatus(position, next_status)

Spec == Init /\ [][Next]_vars

(* ---------------------- grids of large dimensions ---------------------- *)

\* row_count / column_count handed to Table::new: small ones, one whose
\* square passes u32::MAX, and u32::MAX.
WideDimensionInputs == {U32(1), U32(2), U32(65539), U32MAX}

\* Construction: Table::new with dimensions up to 65539 and
\* AttendanceBook::default().
InitWide ==
    /\ \E row_count \in WideDimensionInputs, column_count \in WideDimensionInputs,
          entries \in EntryListInputs :
            table = TableNew(row_count, column_count, entries)
    /\ attendance = EmptyMap
    /\ last = Op("new", <<>>, TRUE)
    /\ steps = 0
    /\ CoreOnly

\* A call of Table::active_cells, in a build with or without overflow checks:
\* out is [panic, value].
DoActiveCells(overflow_checks) ==
    /\ Step
    /\ UNCHANGED ui
    /\ last' = OpOut("active_cells", <<overflow_checks>>,
                  IF overflow_checks /\ TotalCellsPanics(table)
                  THEN [panic |-> TRUE, value |-> U32(0)]
                  ELSE [panic |-> FALSE, value |-> ActiveCells(table)])
    /\ UNCHANGED <<table, attendance>>

\* The operations that do not walk over every position of the grid.
NextWide ==
    \/ \E position \in PositionInputs, subject \in SubjectInputs \cup {None} :
          DoSetSubject(position, subject)
    \/ DoAddRow
    \/ DoAddColumn
    \/ \E row_index \in RowIndexInputs : DoRemoveRow(row_index)
    \/ \E column_index \in ColumnIndexInputs : DoRemoveColumn(column_index)
    \/ \E position \in PositionInputs, next_status \in AttendanceStatusALL :
          DoUpdateStatus(position, next_status)
    \/ \E overflow_checks \in BOOLEAN : DoActiveCells(overflow_checks)

SpecWide == InitWide /\ [][NextWide]_vars

(* ------------------- statistics of large trackers ---------------------- *)

\* Numbers of Checked cells: few, the most whose hundredfold fits a u32, and
\* one more.
CheckedInputs == {0, 1, 2, 21474836, 42949672, 42949673}

\* Numbers of Marked cells
MarkedInputs == {0, 1, 2, 42949673}

\* Numbers of Unchecked cells
UncheckedInputs == 0..3

\* The AttendanceStatistics that statistics() returns for a grid of
\* active_total rows and one column without explicit content, of which
\* `checked` cells are Checked and `marked` cells are Marked.  Grid and
\* tracker of that size are not written out: table holds the grid, its map
\* being empty, and attendance is left empty.
InitRatio ==
    /\ \E checked \in CheckedInputs, marked \in MarkedInputs,
          unchecked \in UncheckedInputs :
            /\ table = TableNew(U32(checked + marked + unchecked), U32(1), <<>>)
            /\ last = OpOut("statistics", <<>>,
                         [checked |-> U32(checked), unchecked |-> U32(unchecked),
                          marked |-> U32(marked),
                          active_total |-> ActiveCells(table),
                          blocked_total |-> BlockedCells(table)])
    /\ attendance = EmptyMap
    /\ steps = 0
    /\ CoreOnly

NextRatio ==
    \E overflow_checks \in BOOLEAN : DoCompletedRatioPercent(overflow_checks)

SpecRatio == InitRatio /\ [][NextRatio]_vars

(* --------------------- statistics of wide grids ------------------------ *)

\* row_count / column_count handed to Table::new: small ones and 2^16, whose
\* square is one more than u32::MAX.
TallyDimensionInputs == {U32(1), U32(2), U32(Limb)}

\* The tracked positions that statistics() looks up: in bounds and not inert.
CountedEntries(statuses, t) ==
    {p \in DOMAIN statuses : Contains(t, p) /\ ~IsInert(t, p)}

\* AttendanceBook::statistics in a build without overflow checks, the grid
\* not being walked: its loop counts every in-bounds position that is not
\* inert once, under the status of its entry or as Unchecked without one,
\* with `+= 1` modulo 2^32.  The inert positions are the stored Block and
\* Transparent entries, which are all in bounds.
StatisticsWide(statuses, t) ==
    LET counted  == CountedEntries(statuses, t)
        checked  == U32(Cardinality({p \in counted : statuses[p] = "Checked"}))
        marked   == U32(Cardinality({p \in counted : statuses[p] = "Marked"}))
        inert    == U32Add(BlockedCells(t), TransparentCells(t)).value
        others   == U32Add(U32Add(inert, checked).value, marked).value
    IN  [checked |-> checked,
         unchecked |-> U32Sub(TotalCells(t), others).value,
         marked |-> marked,
         active_total |-> ActiveCells(t), blocked_total |-> BlockedCells(t)]

\* Construction: Table::new with dimensions up to 2^16 and
\* AttendanceBook::default().
InitTally ==
    /\ \E row_count \in TallyDimensionInputs, column_count \in TallyDimensionInputs,
          entries \in EntryListInputs :
            table = TableNew(row_count, column_count, entries)
    /\ attendance = EmptyMap
    /\ last = Op("new", <<>>, TRUE)
    /\ steps = 0
    /\ CoreOnly

\* A call of AttendanceBook::statistics, in a build with or without overflow
\* checks: out is [panic, value].  With overflow checks a grid of 2^32 cells
\* or more panics, in the `+= 1` of the loop or in total_cells.
DoStatisticsWide(overflow_checks) ==
    /\ Step
    /\ UNCHANGED ui
    /\ last' = OpOut("statistics", <<overflow_checks>>,
                  IF overflow_checks /\ TotalCellsPanics(table)
                  THEN [panic |-> TRUE, value |-> None]
                  ELSE [panic |-> FALSE, value |-> StatisticsWide(attendance, table)])
    /\ UNCHANGED <<table, attendance>>

\* Edits of the grid and of the tracker, and the statistics of both.
NextTally ==
    \/ \E position \in PositionInputs, subject \in SubjectInputs \cup {None} :
          DoSetSubject(position, subject)
    \/ \E position \in PositionInputs, next_status \in AttendanceStatusALL :
          DoUpdateStatus(position, next_status)
    \/ \E overflow_checks \in BOOLEAN : DoStatisticsWide(overflow_checks)

SpecTally == InitTally /\ [][NextTally]_vars

(* ----------------------- grids that grow -------------------------------- *)

\* <<row_count, column_count>> handed to Table::new: small grids, a grid of
\* u32::MAX cells (65535 x 65537 = 2^32 - 1) and grids of one row or column
\* of u32::MAX cells.  The cells of each can be counted in a u32.
GrowDimensionInputs ==
    { <<U32(1), U32(1)>>, <<U32(2), U32(2)>>, <<U32(Limb - 1), U32(Limb + 1)>>,
      <<U32MAX, U32(1)>>, <<U32(1), U32MAX>> }

\* Construction: Table::new and AttendanceBook::default().
InitGrow ==
    /\ \E dimensions \in GrowDimensionInputs, entries \in EntryListInputs :
          table = TableNew(dimensions[1], dimensions[2], entries)
    /\ attendance = EmptyMap
    /\ last = Op("new", <<>>, TRUE)
    /\ steps = 0
    /\ CoreOnly

\* A call of Table::total_cells, in a build with or without overflow checks:
\* out is [panic, value].
DoTotalCells(overflow_checks) ==
    /\ Step
    /\ UNCHANGED ui
    /\ last' = OpOut("total_cells", <<overflow_checks>>,
                  IF overflow_checks /\ TotalCellsPanics(table)
                  THEN [panic |-> TRUE, value |-> U32(0)]
                  ELSE [panic |-> FALSE, value |-> TotalCells(table)])
    /\ UNCHANGED <<table, attendance>>

\* Rows and columns are added, and the cells are counted.
NextGrow ==
    \/ DoAddRow
    \/ DoAddColumn
    \/ \E overflow_checks \in BOOLEAN : DoTotalCells(overflow_checks)

SpecGrow == InitGrow /\ [][NextGrow]_vars

(* ------------------ the config file, read and written ------------------ *)

\* Entries handed to Table::new: in and out of bounds of a 1 x 1 and of a
\* 2 x 2 grid.
CreateEntryInputs ==
    {<<p, s>> : p \in {Position(0, 0), Position(1, 0), Position(2, 2)},
                s \in {Some(<<"a">>), Transparent}}

\* Entry lists handed to Table::new: up to two entries, and two lists of
\* three that name a position more than once.
CreateEntryListInputs ==
    {<<>>} \cup {<<e>> : e \in CreateEntryInputs}
        \cup {<<e, f>> : e \in CreateEntryInputs, f \in CreateEntryInputs}
        \cup { << <<Position(0, 0), Some(<<"a">>)>>,
                  <<Position(0, 0), Transparent>>,
                  <<Position(0, 0), Block(<<"b">>)>> >>,
               << <<Position(0, 0), Some(<<"a">>)>>,
                  <<Position(1, 0), Block(<<"b">>)>>,
                  <<Position(0, 0), Transparent>> >> }

CreateDimensionInputs == {U32(1), U32(2)}

\* The subjects arrays of the config files: none, one subject, and pairs
\* that name a position twice or hold a subject out of bounds.
ZoeSubject ==
    JsonObject(SubjectMembers(0, 0, <<"a", "c", "t", "i", "v", "e">>)
                  \o NameMember(JsonString(<<"Z", "o", "e">>)))

ConfigSubjectListInputs ==
    {<<>>} \cup {<<j>> : j \in ConfigSubjectInputs}
        \cup {<<ZoeSubject, j>> : j \in ConfigSubjectInputs}
        \cup {<<j, ZoeSubject>> : j \in ConfigSubjectInputs}

\* The table objects of the config files: 1 x 1 and 2 x 2, and a 1 x 1 table
\* written as an array.
ConfigTableInputs ==
    { TableObject(U32(n), U32(n), ss) : n \in 1..2, ss \in ConfigSubjectListInputs }
        \cup {JsonArray(<<JsonU32(U32(1)), JsonU32(U32(1)), JsonArray(<<ZoeSubject>>)>>)}

\* The 1 x 1 table object of the legacy file with the subject Zoe.
ZoeTable == TableObject(U32(1), U32(1), <<ZoeSubject>>)

\* Table objects that do not decode: a field is missing, a kind is not one
\* of the three, a subject has no kind, a name is a number.
BrokenTableInputs ==
    { JsonObject(<< <<"row_count", JsonU32(U32(1))>>, <<"subjects", JsonArray(<<>>)>> >>),
      TableObject(U32(1), U32(1),
                  <<JsonObject(SubjectMembers(0, 0, <<"o", "c", "c", "u", "p", "i", "e", "d">>)
                                  \o NameMember(JsonNull))>>),
      TableObject(U32(1), U32(1),
                  <<ZoeSubject,
                    JsonObject(<< <<"x", JsonU32(U32(0))>>, <<"y", JsonU32(U32(0))>>,
                                  <<"name", JsonNull>> >>)>>),
      TableObject(U32(1), U32(1),
                  <<JsonObject(SubjectMembers(0, 0, <<"a", "c", "t", "i", "v", "e">>)
                                  \o NameMember(JsonU32(U32(7))))>>) }

\* Subjects that do not decode because a value has the wrong type or a key
\* comes twice: x below zero, y a string, x null, x with a fraction, y above
\* u32::MAX, the kind an object with a value that is not null, an array of
\* three items, and x twice.
MistypedSubjectInputs ==
    { JsonObject(<< <<"x", JsonNumber("negative")>>, <<"y", JsonU32(U32(0))>>,
                    <<"kind", JsonString(<<"a", "c", "t", "i", "v", "e">>)>>,
                    <<"name", JsonNull>> >>),
      JsonObject(<< <<"x", JsonU32(U32(0))>>, <<"y", JsonString(<<"0">>)>>,
                    <<"kind", JsonString(<<"a", "c", "t", "i", "v", "e">>)>>,
                    <<"name", JsonNull>> >>),
      JsonObject(<< <<"x", JsonNull>>, <<"y", JsonU32(U32(0))>>,
                    <<"kind", JsonString(<<"a", "c", "t", "i", "v", "e">>)>>,
                    <<"name", JsonNull>> >>),
      JsonObject(<< <<"x", JsonNumber("float")>>, <<"y", JsonU32(U32(0))>>,
                    <<"kind", JsonString(<<"a", "c", "t", "i", "v", "e">>)>> >>),
      JsonObject(<< <<"x", JsonU32(U32(0))>>, <<"y", JsonNumber("wide")>>,
                    <<"kind", JsonString(<<"a", "c", "t", "i", "v", "e">>)>> >>),
      JsonObject(<< <<"x", JsonU32(U32(0))>>, <<"y", JsonU32(U32(0))>>,
                    <<"kind", JsonObject(<< <<"active", JsonU32(U32(1))>> >>)>> >>),
      JsonArray(<<JsonU32(U32(0)), JsonU32(U32(0)),
                  JsonString(<<"a", "c", "t", "i", "v", "e">>)>>),
      JsonObject(<< <<"x", JsonU32(U32(0))>>, <<"x", JsonU32(U32(0))>>,
                    <<"y", JsonU32(U32(0))>>,
                    <<"kind", JsonString(<<"a", "c", "t", "i", "v", "e">>)>> >>) }

\* Table objects that do not decode for the same reasons: a mistyped
\* subject, row_count null, column_count a string, row_count below zero,
\* subjects an object, an array of two items, and row_count twice.
MistypedTableInputs ==
    { TableObject(U32(1), U32(1), <<j>>) : j \in MistypedSubjectInputs }
        \cup
    { JsonObject(<< <<"row_count", JsonNull>>, <<"column_count", JsonU32(U32(1))>>,
                    <<"subjects", JsonArray(<<>>)>> >>),
      JsonObject(<< <<"row_count", JsonU32(U32(1))>>,
                    <<"column_count", JsonString(<<"1">>)>>,
                    <<"subjects", JsonArray(<<>>)>> >>),
      JsonObject(<< <<"row_count", JsonNumber("negative")>>,
                    <<"column_count", JsonU32(U32(1))>>,
                    <<"subjects", JsonArray(<<>>)>> >>),
      JsonObject(<< <<"row_count", JsonU32(U32(1))>>, <<"column_count", JsonU32(U32(1))>>,
                    <<"subjects", JsonObject(<<>>)>> >>),
      JsonArray(<<JsonU32(U32(1)), JsonU32(U32(1))>>),
      JsonObject(<< <<"row_count", JsonU32(U32(1))>>, <<"row_count", JsonU32(U32(1))>>,
                    <<"column_count", JsonU32(U32(1))>>,
                    <<"subjects", JsonArray(<<>>)>> >>) }

\* A document that has a default_table field next to the fields of a bare
\* table object.
BothSchemas(wrapped, bare) ==
    JsonObject(<< <<"default_table", wrapped>> >> \o bare.members)

\* The config files: wrapped and bare documents, a wrapped document written
\* as an array, documents with the fields of both schemas (either part
\* decoding or not), documents of neither schema, a text that is no JSON, an
\* unreadable file and no file.
ConfigFileInputs ==
    {Wrapped(c) : c \in ConfigTableInputs \cup BrokenTableInputs \cup MistypedTableInputs}
        \cup ConfigTableInputs \cup BrokenTableInputs \cup MistypedTableInputs
        \cup {JsonArray(<<ZoeTable>>)}
        \cup {BothSchemas(w, b) :
                 w \in {ZoeTable, VersionOnly} \cup BrokenTableInputs,
                 b \in {TableObject(U32(2), U32(2), <<>>)} \cup BrokenTableInputs}
        \cup {VersionOnly, NotJson, Unreadable, Missing}

\* Construction by Table::new, last.args holding what it was handed, next to
\* a config file.
InitConfig ==
    /\ \E row_count \in CreateDimensionInputs, column_count \in CreateDimensionInputs,
          entries \in CreateEntryListInputs :
            /\ table = TableNew(row_count, column_count, entries)
            /\ last = Op("new", <<row_count, column_count, entries>>, TRUE)
    /\ attendance = BookNew(table)
    /\ steps = 0
    /\ mode = "CheckIn"
    /\ panel = None
    /\ dialog = None
    /\ config_file \in ConfigFileInputs

NextConfig ==
    \/ DoLoadConfig
    \/ \E outcome \in WriteOutcomes : DoWriteConfig(outcome)

SpecConfig == InitConfig /\ [][NextConfig]_vars

(* ------------------------------ queries -------------------------------- *)

\* The cells that are clicked: two of the first row and one further out.
CellInputs == {Position(0, 0), Position(1, 0), Position(2, 2)}

\* Contents handed to set_subject before a query.
QuerySubjectInputs == {None, Transparent, Block(<<"b">>), Some(<<"a">>)}

\* The times handed to build_export_text_zh: an afternoon of 2024 and the
\* first second of the year 10000.
ExportTimeInputs ==
    { [year |-> 2024, month |-> 3, day |-> 9, hour |-> 15, minute |-> 30, second |-> 59],
      [year |-> 10000, month |-> 1, day |-> 1, hour |-> 0, minute |-> 0, second |-> 0] }

\* Entry lists handed to Table::new before a query.
QueryEntryListInputs ==
    { <<>>, TwoEntries,
      << <<Position(0, 0), Block(<<"b">>)>> >>,
      << <<Position(1, 1), Transparent>>, <<Position(0, 1), Some(<<" ">>)>> >> }

\* Construction: Table::new and AttendanceBook::new.
InitQuery ==
    /\ \E row_count \in DimensionInputs, column_count \in DimensionInputs,
          entries \in QueryEntryListInputs :
            table = TableNew(row_count, column_count, entries)
    /\ attendance = BookNew(table)
    /\ last = Op("new", <<>>, TRUE)
    /\ steps = 0
    /\ CoreOnly

\* Table::iter_positions, collected; out is [positions].
DoIterPositions ==
    /\ Step
    /\ UNCHANGED ui
    /\ last' = OpOut("iter_positions", <<>>, [positions |-> IterPositions(table)])
    /\ UNCHANGED <<table, attendance>>

\* Table::cell_kind and Table::is_inert of a position; out is [kind, inert].
DoCellKind(position) ==
    /\ Step
    /\ UNCHANGED ui
    /\ last' = OpOut("cell_kind", <<position>>,
                  [kind |-> CellKind(table, position),
                   inert |-> IsInert(table, position)])
    /\ UNCHANGED <<table, attendance>>

\* AttendanceBook::build_export_text_zh; out is the parts of the text.
DoBuildExportTextZh(time) ==
    /\ Step
    /\ UNCHANGED ui
    /\ last' = OpOut("build_export_text_zh", <<time>>,
                  BuildExportTextZh(attendance, table, time))
    /\ UNCHANGED <<table, attendance>>

\* Edits of the grid and of the tracker, and the queries on them.
NextQuery ==
    \/ \E position \in CellInputs, subject \in QuerySubjectInputs :
          DoSetSubject(position, subject)
    \/ \E position \in CellInputs, next_status \in AttendanceStatusALL :
          DoUpdateStatus(position, next_status)
    \/ \E row_index \in RowIndexInputs : DoRemoveRow(row_index)
    \/ DoIterPositions
    \/ \E position \in CellInputs : DoCellKind(position)
    \/ \E time \in ExportTimeInputs : DoBuildExportTextZh(time)

SpecQuery == InitQuery /\ [][NextQuery]_vars

(* --------------------------- time of day -------------------------------- *)

\* The local times handed to period_string: every minute of a day, at its
\* first and at its last second.
TimeInputs ==
    { [year |-> 2024, month |-> 3, day |-> 9, hour |-> h, minute |-> m, second |-> sec] :
        h \in 0..23, m \in 0..59, sec \in {0, 59} }

\* SystemTimeExt::period_string; out is [label].
DoPeriodString(time) ==
    /\ Step
    /\ UNCHANGED ui
    /\ last' = OpOut("period_string", <<time>>, [label |-> PeriodString(time)])
    /\ UNCHANGED <<table, attendance>>

\* The clock is read: SystemTime::now, one of the local times.
InitPeriod ==
    /\ table = TableNew(U32(1), U32(1), <<>>)
    /\ attendance = BookNew(table)
    /\ \E time \in TimeInputs : last = Op("now", <<time>>, TRUE)
    /\ steps = 0
    /\ CoreOnly

\* The label of the time that was read is asked for.
NextPeriod == DoPeriodString(last.args[1])

SpecPeriod == InitPeriod /\ [][NextPeriod]_vars

(* ------------------------- the views (ui) ------------------------------ *)

\* CellEditDraft::into_subject; a draft is [kind, name], name an
\* Option<String>.
DraftIntoSubject(draft) ==
    CASE draft.kind = Active ->
            LET name == Trim(UnwrapOrDefault(draft.name))
            IN  IF name = <<>> THEN None ELSE Some(name)
      [] draft.kind = Blocked -> Block(Trim(UnwrapOrDefault(draft.name)))
      [] draft.kind = TransparentKind -> Transparent

\* The drafts the save button of the CellEditDialog builds: no name for a
\* Transparent cell, the text of the entry otherwise (a vertical tab alone, a
\* name followed by a space, a label).
DraftInputs ==
    { [kind |-> TransparentKind, name |-> None],
      [kind |-> Active, name |-> SomeString(<<"">>)],
      [kind |-> Active, name |-> SomeString(<<"a", " ">>)],
      [kind |-> Blocked, name |-> SomeString(<<"b">>)] }

\* The config files found at startup: none, a document of neither schema, a
\* wrapped 2 x 2 grid with an Occupied and a Blocked cell, a bare 1 x 2 grid
\* and a wrapped grid without rows.
UiFileInputs ==
    { Missing,
      VersionOnly,
      SerializeAppConfigFile(
          [default_table |-> FromTable(TableNew(U32(2), U32(2), TwoEntries))]),
      TableObject(U32(1), U32(2), <<ZoeSubject>>),
      Wrapped(TableObject(U32(0), U32(1), <<>>)) }

\* An event of the views: ret says whether the handler changed the grid or
\* the tracker, out holds the statistics it emitted to the StatisticsPanel
\* and the result of the write_config it caused (None where it did neither).
Event(op, args, ret, emitted, exported) ==
    [op |-> op, args |-> args, ret |-> ret,
     out |-> [emitted |-> emitted, exported |-> exported]]

\* main() and AppView::new: the table of the config file or default_table,
\* the tracker of ViewState::new, the mode of ModeSwitch::new and the
\* StatisticsPanel of get_statistics.
InitUi ==
    /\ config_file \in UiFileInputs
    /\ table = StartupTable(config_file, MixedDrawList)
    /\ attendance = BookNew(table)
    /\ mode = "CheckIn"
    /\ panel = Statistics(attendance, table)
    /\ dialog = None
    /\ last = Op("new", <<>>, TRUE)
    /\ steps = 0

\* An event of the views that runs to its end; the events counted are the
\* clicks on the buttons of the window and the answers to a dialog.
UiStep == steps < MaxEvents /\ steps' = steps + 1

\* The CellEditDialog and the StatusDialog of a cell: windows built with
\* modal(true), so that the window of the views gets no input while one of
\* them is open.
EditDialogOf(position) == [kind |-> "CellEditDialog", position |-> position]

StatusDialogOf(position) == [kind |-> "StatusDialog", position |-> position]

\* The pressed handler of a cell of the grid on a double click: in Edit mode
\* it presents the CellEditDialog, in CheckIn mode the StatusDialog unless
\* the cell is inert.  The handler returns with the dialog open.
UiCellPressed(position) ==
    /\ dialog = None
    /\ Contains(table, position)
    /\ steps < MaxEvents
    /\ dialog' = IF mode = "Edit" THEN EditDialogOf(position)
                 ELSE IF ~IsInert(table, position) THEN StatusDialogOf(position)
                 ELSE None
    /\ last' = Event("ui_cell_pressed", <<position>>, FALSE, None, None)
    /\ UNCHANGED <<table, attendance, steps, mode, panel, config_file>>

\* The cancel button of a dialog, or the dialog closed without an answer.
UiDialogCancel ==
    /\ dialog # None
    /\ dialog' = None
    /\ last' = Event("ui_dialog_cancel", <<>>, FALSE, None, None)
    /\ UNCHANGED <<table, attendance, steps, mode, panel, config_file>>

\* The add-row handler of the corner button.
UiAddRow ==
    /\ dialog = None
    /\ UiStep
    /\ IF mode # "Edit"
       THEN /\ UNCHANGED <<table, attendance, panel>>
            /\ last' = Event("ui_add_row", <<>>, FALSE, None, None)
       ELSE /\ table' = AddRow(table)
            /\ attendance' = ReconcileWithTable(attendance, table')
            /\ panel' = Statistics(attendance', table')
            /\ last' = Event("ui_add_row", <<>>, TRUE, panel', None)
    /\ UNCHANGED <<mode, config_file, dialog>>

\* The add-column handler of the corner button.
UiAddColumn ==
    /\ dialog = None
    /\ UiStep
    /\ IF mode # "Edit"
       THEN /\ UNCHANGED <<table, attendance, panel>>
            /\ last' = Event("ui_add_column", <<>>, FALSE, None, None)
       ELSE /\ table' = AddColumn(table)
            /\ attendance' = ReconcileWithTable(attendance, table')
            /\ panel' = Statistics(attendance', table')
            /\ last' = Event("ui_add_column", <<>>, TRUE, panel', None)
    /\ UNCHANGED <<mode, config_file, dialog>>

\* The handler of a remove-row button without the check of the mode.
UiRemoveRowAnyMode(row_index) ==
    /\ dialog = None
    /\ row_index < RowCount(table)
    /\ UiStep
    /\ IF ~RemoveRow(table, row_index).ret
       THEN /\ UNCHANGED <<table, attendance, panel>>
            /\ last' = Event("ui_remove_row", <<row_index>>, FALSE, None, None)
       ELSE /\ table' = RemoveRow(table, row_index).table
            /\ attendance' = ReconcileWithTable(attendance, table')
            /\ panel' = Statistics(attendance', table')
            /\ last' = Event("ui_remove_row", <<row_index>>, TRUE, panel', None)
    /\ UNCHANGED <<mode, config_file, dialog>>

\* The handler of the remove button of row row_index; build_grid makes one
\* button for each row of the grid.
UiRemoveRow(row_index) ==
    /\ dialog = None
    /\ row_index < RowCount(table)
    /\ UiStep
    /\ IF mode # "Edit" \/ ~RemoveRow(table, row_index).ret
       THEN /\ UNCHANGED <<table, attendance, panel>>
            /\ last' = Event("ui_remove_row", <<row_index>>, FALSE, None, None)
       ELSE /\ table' = RemoveRow(table, row_index).table
            /\ attendance' = ReconcileWithTable(attendance, table')
            /\ panel' = Statistics(attendance', table')
            /\ last' = Event("ui_remove_row", <<row_index>>, TRUE, panel', None)
    /\ UNCHANGED <<mode, config_file, dialog>>

\* The handler of the remove button of column column_index.
UiRemoveColumn(column_index) ==
    /\ dialog = None
    /\ column_index < ColumnCount(table)
    /\ UiStep
    /\ IF mode # "Edit" \/ ~RemoveColumn(table, column_index).ret
       THEN /\ UNCHANGED <<table, attendance, panel>>
            /\ last' = Event("ui_remove_column", <<column_index>>, FALSE, None, None)
       ELSE /\ table' = RemoveColumn(table, column_index).table
            /\ attendance' = ReconcileWithTable(attendance, table')
            /\ panel' = Statistics(attendance', table')
            /\ last' = Event("ui_remove_column", <<column_index>>, TRUE, panel', None)
    /\ UNCHANGED <<mode, config_file, dialog>>

\* The save of the CellEditDialog without reconcile_with_table.
UiEditSaveNoReconcile(position, draft) ==
    /\ dialog = EditDialogOf(position)
    /\ UiStep
    /\ dialog' = None
    /\ LET r == SetSubject(table, position, DraftIntoSubject(draft))
       IN  IF ~r.ret
           THEN /\ UNCHANGED <<table, attendance, panel>>
                /\ last' = Event("ui_edit_save", <<position, draft>>, FALSE, None, None)
           ELSE /\ table' = r.table
                /\ attendance' = attendance
                /\ panel' = Statistics(attendance', table')
                /\ last' = Event("ui_edit_save", <<position, draft>>, TRUE, panel', None)
    /\ UNCHANGED <<mode, config_file>>

\* The save button of the CellEditDialog of a cell: the on_save callback of
\* open_edit_dialog with the draft of the dialog, then the dialog closes.
\* The callback does not look at the mode.
UiEditSave(position, draft) ==
    /\ dialog = EditDialogOf(position)
    /\ UiStep
    /\ dialog' = None
    /\ LET r == SetSubject(table, position, DraftIntoSubject(draft))
       IN  IF ~r.ret
           THEN /\ UNCHANGED <<table, attendance, panel>>
                /\ last' = Event("ui_edit_save", <<position, draft>>, FALSE, None, None)
           ELSE /\ table' = r.table
                /\ attendance' = ReconcileWithTable(attendance, table')
                /\ panel' = Statistics(attendance', table')
                /\ last' = Event("ui_edit_save", <<position, draft>>, TRUE, panel', None)
    /\ UNCHANGED <<mode, config_file>>

\* The choice in the StatusDialog without emit_status_changed.
UiStatusChoiceNoEmit(position, status) ==
    /\ dialog = StatusDialogOf(position)
    /\ UiStep
    /\ dialog' = None
    /\ LET r == UpdateStatus(attendance, table, position, status)
       IN  /\ attendance' = r.statuses
           /\ last' = Event("ui_status_choice", <<position, status>>, r.ret, None, None)
    /\ UNCHANGED <<table, mode, panel, config_file>>

\* A choice in the StatusDialog of a cell: the callback of
\* open_status_dialog with the status chosen, then the dialog closes.  The
\* callback looks neither at the mode nor at the cell.
UiStatusChoice(position, status) ==
    /\ dialog = StatusDialogOf(position)
    /\ UiStep
    /\ dialog' = None
    /\ LET r == UpdateStatus(attendance, table, position, status)
       IN  /\ attendance' = r.statuses
           /\ IF ~r.ret
              THEN /\ UNCHANGED panel
                   /\ last' = Event("ui_status_choice", <<position, status>>, FALSE,
                                    None, None)
              ELSE /\ panel' = Statistics(attendance', table)
                   /\ last' = Event("ui_status_choice", <<position, status>>, TRUE,
                                    panel', None)
    /\ UNCHANGED <<table, mode, config_file>>

\* set_mode running the table-exported callbacks on every change of mode.
UiSetModeExportAlways(outcome) ==
    LET next == IF mode = "CheckIn" THEN "Edit" ELSE "CheckIn"
    IN  /\ dialog = None
        /\ UiStep
        /\ mode' = next
        /\ attendance' = ReconcileWithTable(attendance, table)
        /\ panel' = Statistics(attendance', table)
        /\ config_file' = WriteConfig(table, config_file, outcome).file
        /\ last' = Event("ui_set_mode", <<next>>, TRUE, panel',
                         WriteConfig(table, config_file, outcome))
        /\ UNCHANGED <<table, dialog>>

\* set_mode leaving Edit without the table-exported callbacks.
UiSetModeNoExport(outcome) ==
    LET next == IF mode = "CheckIn" THEN "Edit" ELSE "CheckIn"
    IN  /\ dialog = None
        /\ UiStep
        /\ mode' = next
        /\ IF mode = "Edit" /\ next # "Edit"
           THEN /\ attendance' = ReconcileWithTable(attendance, table)
                /\ panel' = Statistics(attendance', table)
                /\ last' = Event("ui_set_mode", <<next>>, TRUE, panel', None)
           ELSE /\ UNCHANGED <<attendance, panel>>
                /\ last' = Event("ui_set_mode", <<next>>, FALSE, None, None)
        /\ UNCHANGED <<table, config_file, dialog>>

\* A click on the ModeSwitch: TableView::set_mode with the other mode.  On
\* leaving Edit the table-exported callback of AppView writes the grid;
\* outcome says how fs::write ends.
UiSetMode(outcome) ==
    LET next == IF mode = "CheckIn" THEN "Edit" ELSE "CheckIn"
    IN  /\ dialog = None
        /\ UiStep
        /\ mode' = next
        /\ IF mode = "Edit" /\ next # "Edit"
           THEN /\ attendance' = ReconcileWithTable(attendance, table)
                /\ panel' = Statistics(attendance', table)
                /\ config_file' = WriteConfig(table, config_file, outcome).file
                /\ last' = Event("ui_set_mode", <<next>>, TRUE, panel',
                                 WriteConfig(table, config_file, outcome))
           ELSE /\ UNCHANGED <<attendance, panel, config_file>>
                /\ last' = Event("ui_set_mode", <<next>>, FALSE, None, None)
        /\ UNCHANGED <<table, dialog>>

\* TableView::set_mode called with the mode the views are in: it returns
\* before anything is touched.
UiSetModeCurrent ==
    /\ dialog = None
    /\ UiStep
    /\ last' = Event("ui_set_mode", <<mode>>, FALSE, None, None)
    /\ UNCHANGED <<table, attendance, mode, panel, config_file, dialog>>

NextUi ==
    \/ UiAddRow
    \/ UiAddColumn
    \/ \E row_index \in RowIndexInputs : UiRemoveRow(row_index)
    \/ \E column_index \in ColumnIndexInputs : UiRemoveColumn(column_index)
    \/ \E position \in CellInputs : UiCellPressed(position)
    \/ UiDialogCancel
    \/ \E position \in CellInputs, draft \in DraftInputs : UiEditSave(position, draft)
    \/ \E position \in CellInputs, status \in AttendanceStatusALL :
          UiStatusChoice(position, status)
    \/ \E outcome \in WriteOutcomes : UiSetMode(outcome)
    \/ UiSetModeCurrent

SpecUi == InitUi /\ [][NextUi]_vars

(* ---------------------- edits of marked cells --------------------------- *)

\* The grids the views start from: one or two rows and columns, empty or
\* with the cells of TwoEntries.
DetourTableInputs ==
    { TableNew(row_count, column_count, entries) :
        row_count \in {U32(1), U32(2)}, column_count \in {U32(1), U32(2)},
        entries \in {<<>>, TwoEntries} }

\* The views in Edit mode after the choices of the StatusDialog for the
\* first two cells of the first row, the first of them Checked or Marked,
\* and a click on the ModeSwitch.
InitDetour ==
    /\ table \in DetourTableInputs
    /\ \E first \in {"Checked", "Marked"}, second \in AttendanceStatusALL :
          attendance =
            UpdateStatus(
                UpdateStatus(BookNew(table), table, Position(0, 0), first).statuses,
                table, Position(1, 0), second).statuses
    /\ mode = "Edit"
    /\ panel = Statistics(attendance, table)
    /\ config_file = Missing
    /\ dialog = None
    /\ last = Op("new", <<>>, TRUE)
    /\ steps = 0

\* Double clicks on cells and the answers to the CellEditDialog, one after
\* the other.
NextDetour ==
    \/ \E position \in CellInputs : UiCellPressed(position)
    \/ UiDialogCancel
    \/ \E position \in CellInputs, draft \in DraftInputs : UiEditSave(position, draft)

SpecDetour == InitDetour /\ [][NextDetour]_vars

(* ------------------------------ claims --------------------------------- *)

\* The positions of the grid that are in bounds and Active.
ActivePositions(t) ==
    {p \in {Position(x, y) : x \in 0..(ColumnCount(t) - 1),
                              y \in 0..(RowCount(t) - 1)} :
        CellKind(t, p) = Active}

\* Every tracked position is in bounds of the grid and Active.
TrackedValid(statuses, t) == DOMAIN statuses \subseteq ActivePositions(t)

\* The content an operation's subject argument is stored as.
IsInertSubject(subject) ==
    NormalizeSubject(subject) # None /\ NormalizeSubject(subject).tag # "Some"

\* C1 (as stated): in every reachable state, whatever the sequence of grid
\* and tracker operations, every tracked position is in bounds and Active.
C1_TrackedAlwaysValid == TrackedValid(attendance, table)

\* C1 (amended): every tracked position is in bounds and Active right after
\* create and reconcile, and that is preserved by set_status, add_row,
\* add_column, every refused operation and a set_content whose content is
\* Occupied or absent.
C1_TrackedValidUntilGridShrinks ==
    [][ /\ last'.op \in {"book_new", "reconcile"}
            => TrackedValid(attendance', table')
        /\ ( /\ TrackedValid(attendance, table)
             /\ \/ last'.op \in {"update_status", "add_row", "add_column"}
                \/ last'.ret = FALSE
                \/ last'.op = "set_subject" /\ ~IsInertSubject(last'.args[2]) )
            => TrackedValid(attendance', table') ]_vars

\* C1 witness: set_status changed the status of a tracked cell of a grid that
\* also holds a Blocked or Transparent cell, and every entry is valid.
C1_Witness ==
    /\ last.op = "update_status" /\ last.ret = TRUE
    /\ \E p \in PositionInputs : IsInert(table, p)
    /\ TrackedValid(attendance, table)

\* C2: after a successful remove_row(i) followed by reconcile, a cell
\* renumbered from (x, y) to (x, y - 1), y > i, has the status it had before,
\* and a cell below the removed index keeps its status; remove_column
\* likewise on the x axis.  The tracker is untouched by the removal, so in
\* the state right after it `attendance` is the tracker before the removal.
C2_StatusFollowsCell ==
    LET after == ReconcileWithTable(attendance, table)
        i     == last.args[1]
    IN  /\ (last.op = "remove_row" /\ last.ret = TRUE) =>
              \A p \in DOMAIN attendance :
                  /\ (p.y > i /\ Position(p.x, p.y - 1) \in ActivePositions(table))
                        => StatusAt(after, Position(p.x, p.y - 1)) = attendance[p]
                  /\ (p.y < i /\ p \in ActivePositions(table))
                        => StatusAt(after, p) = attendance[p]
        /\ (last.op = "remove_column" /\ last.ret = TRUE) =>
              \A p \in DOMAIN attendance :
                  /\ (p.x > i /\ Position(p.x - 1, p.y) \in ActivePositions(table))
                        => StatusAt(after, Position(p.x - 1, p.y)) = attendance[p]
                  /\ (p.x < i /\ p \in ActivePositions(table))
                        => StatusAt(after, p) = attendance[p]

\* The position an entry at p has after the removal of row / column i.
AfterRowRemoval(p, i) == Position(p.x, IF p.y > i THEN p.y - 1 ELSE p.y)
AfterColumnRemoval(p, i) == Position(IF p.x > i THEN p.x - 1 ELSE p.x, p.y)

\* C3: a successful remove_row(i) keeps exactly the entries off row i, each
\* with its x and content, at y when y < i and at y - 1 otherwise, without
\* collisions; row_count drops by 1 and column_count is unchanged.
\* remove_column(i) does the same on the x axis.
C3_RemoveRenumbers ==
    [][ LET i    == last'.args[1]
            old  == table.subjects
            new  == table'.subjects
            rows == {p \in DOMAIN old : p.y # i}
            cols == {p \in DOMAIN old : p.x # i}
        IN  /\ (last'.op = "remove_row" /\ last'.ret = TRUE) =>
                  /\ RowCount(table') = RowCount(table) - 1
                  /\ table'.column_count = table.column_count
                  /\ DOMAIN new = {AfterRowRemoval(p, i) : p \in rows}
                  /\ Cardinality(DOMAIN new) = Cardinality(rows)
                  /\ \A p \in rows : new[AfterRowRemoval(p, i)] = old[p]
            /\ (last'.op = "remove_column" /\ last'.ret = TRUE) =>
                  /\ ColumnCount(table') = ColumnCount(table) - 1
                  /\ table'.row_count = table.row_count
                  /\ DOMAIN new = {AfterColumnRemoval(p, i) : p \in cols}
                  /\ Cardinality(DOMAIN new) = Cardinality(cols)
                  /\ \A p \in cols : new[AfterColumnRemoval(p, i)] = old[p] ]_vars

\* C3 witness: row 0 was removed and an entry that sat on row 1 is now on
\* row 0.
C3_Witness ==
    /\ last.op = "remove_row" /\ last.ret = TRUE /\ last.args[1] = 0
    /\ \E p \in DOMAIN table.subjects : p.y = 0

\* C4: every stored entry is at a position with x < column_count and
\* y < row_count.
C4_EntriesInBounds ==
    \A p \in DOMAIN table.subjects :
        p.x < ColumnCount(table) /\ p.y < RowCount(table)

\* C4 witness: a column was removed from a grid that still holds an entry.
C4_Witness ==
    /\ last.op = "remove_column" /\ last.ret = TRUE
    /\ DOMAIN table.subjects # {}

\* C5: for every reachable grid active_cells() + blocked_cells() +
\* transparent_cells() is row_count x column_count.  (The product is only
\* written out where it is below 2^32; a u32 sum cannot equal a larger one.)
C5_KindsPartitionGrid ==
    last.op = "active_cells" =>
        /\ last.out.panic = FALSE
        /\ ~TotalCellsMul(table).overflow
        /\ U32Add(last.out.value,
                  U32Add(BlockedCells(table), TransparentCells(table)).value)
              = [value |-> TotalCellsMul(table).value, carry |-> FALSE]

\* C6: right after reconcile the tracked positions are exactly the in-bounds
\* Active positions of the grid, and every position the call inserted is
\* Unchecked.
C6_ReconcileTracksActive ==
    [][ last'.op = "reconcile" =>
          /\ DOMAIN attendance' = ActivePositions(table')
          /\ \A p \in (DOMAIN attendance') \ (DOMAIN attendance) :
                attendance'[p] = "Unchecked" ]_vars

\* C6 witness: reconcile ran on a grid that has a Blocked or Transparent cell
\* and at least two Active ones.
C6_Witness ==
    /\ last.op = "reconcile"
    /\ \E p \in PositionInputs : IsInert(table, p)
    /\ Cardinality(DOMAIN attendance) >= 2

\* C7: reconcile leaves the status of every entry that is in bounds and
\* Active in the grid as it was.
C7_ReconcileKeepsValid ==
    [][ last'.op = "reconcile" =>
          \A p \in DOMAIN attendance :
              p \in ActivePositions(table) =>
                  StatusAt(attendance', p) = attendance[p] ]_vars

\* C7 witness: reconcile ran and a Checked or Marked status is still there.
C7_Witness ==
    /\ last.op = "reconcile"
    /\ \E p \in DOMAIN attendance : attendance[p] \in {"Checked", "Marked"}

\* C8: a second reconcile on the unchanged grid leaves the map of the first
\* reconcile as it is.
C8_ReconcileIdempotent ==
    last.op = "reconcile" => ReconcileWithTable(attendance, table) = attendance

\* C8 witness: reconcile ran on a grid of at least two rows with a tracked
\* entry.
C8_Witness ==
    /\ last.op = "reconcile"
    /\ RowCount(table) >= 2
    /\ DOMAIN attendance # {}

\* C9: remove_row(i) with i >= row_count or row_count = 1 returns false and
\* changes neither the dimensions nor the entries; remove_column(i) likewise
\* with i >= column_count or column_count = 1.
C9_RemoveRefused ==
    [][ /\ ( /\ last'.op = "remove_row"
             /\ (last'.args[1] >= RowCount(table) \/ RowCount(table) = 1) )
            => (last'.ret = FALSE /\ table' = table)
        /\ ( /\ last'.op = "remove_column"
             /\ (last'.args[1] >= ColumnCount(table) \/ ColumnCount(table) = 1) )
            => (last'.ret = FALSE /\ table' = table) ]_vars

\* C9 witness: remove_column(0) was refused on a grid of one column holding
\* an entry.
C9_Witness ==
    /\ last.op = "remove_column" /\ last.ret = FALSE /\ last.args[1] = 0
    /\ ColumnCount(table) = 1
    /\ DOMAIN table.subjects # {}

\* C10 (as stated): on a grid of 1 row and 2 columns remove_column(0) returns
\* false and leaves the grid as it is.
C10_RemoveColumnOfTwoRefused ==
    [][ ( /\ last'.op = "remove_column" /\ last'.args[1] = 0
          /\ RowCount(table) = 1 /\ ColumnCount(table) = 2 )
        => (last'.ret = FALSE /\ table' = table) ]_vars

\* C10 (amended): on a grid of 1 row and 2 columns remove_column(0) returns
\* true and leaves 1 row and 1 column, the entry of column 0 dropped and the
\* entry of column 1 moved to column 0.
C10_RemoveColumnOfTwoApplied ==
    [][ ( /\ last'.op = "remove_column" /\ last'.args[1] = 0
          /\ RowCount(table) = 1 /\ ColumnCount(table) = 2 )
        => /\ last'.ret = TRUE
           /\ RowCount(table') = 1 /\ ColumnCount(table') = 1
           /\ SubjectAt(table', Position(0, 0)) = SubjectAt(table, Position(1, 0))
           /\ DOMAIN table'.subjects \subseteq {Position(0, 0)} ]_vars

\* C10 witness: remove_column(0) was applied and left a 1 x 1 grid whose only
\* cell holds an entry.
C10_Witness ==
    /\ last.op = "remove_column" /\ last.ret = TRUE /\ last.args[1] = 0
    /\ RowCount(table) = 1 /\ ColumnCount(table) = 1
    /\ Position(0, 0) \in DOMAIN table.subjects

\* C11 (as stated): every grid produced by create, load_config or
\* default_grid and then mutated by add_row, add_column, remove_row,
\* remove_column and set_content has at least 1 row and at least 1 column.
C11_AtLeastOneRowAndColumn ==
    RowCount(table) >= 1 /\ ColumnCount(table) >= 1

\* C11 (amended): no operation takes a dimension that is at least 1 below 1,
\* and a dimension of 0, which create and load_config accept, is changed by
\* add_row / add_column only.
C11_NeverShrinksBelowOne ==
    [][ /\ RowCount(table) >= 1 => RowCount(table') >= 1
        /\ ColumnCount(table) >= 1 => ColumnCount(table') >= 1
        /\ (RowCount(table) = 0 /\ last'.op # "add_row") => RowCount(table') = 0
        /\ (ColumnCount(table) = 0 /\ last'.op # "add_column")
              => ColumnCount(table') = 0 ]_vars

\* C11 witness: remove_row was applied and left a single row, and a further
\* remove_row would have to be refused.
C11_Witness ==
    /\ last.op = "remove_row" /\ last.ret = TRUE
    /\ RowCount(table) = 1 /\ ColumnCount(table) >= 1

\* C12: no stored entry is an Occupied one whose name is empty or consists of
\* whitespace only, however the grid was built (create, load_config) or
\* edited (set_content).
C12_NoBlankOccupied ==
    \A p \in DOMAIN table.subjects :
        table.subjects[p].tag = "Some" => Trim(table.subjects[p].name) # <<>>

\* C13: set_content returns true exactly when the stored map differs after
\* the call.  Out of bounds it returns false and changes nothing.  In bounds
\* the content is normalized (names trimmed, a blank Occupied name is
\* absence, Transparent and Block are kept, Block even with an empty label);
\* if that equals what is stored, or both are absent, it returns false and
\* changes nothing; else only the entry of the position is replaced or
\* removed, the dimensions and the other entries stay, and it returns true.
C13_SetContent ==
    [][ last'.op = "set_subject" =>
        LET position == last'.args[1]
            subject  == last'.args[2]
            inside   == position.x < ColumnCount(table) /\ position.y < RowCount(table)
            content  == CASE subject.tag = "Some" ->
                                IF Trim(subject.name) = <<>> THEN None
                                ELSE Some(Trim(subject.name))
                          [] subject.tag = "Block" -> Block(Trim(subject.name))
                          [] OTHER -> subject
        IN  /\ last'.ret = (table'.subjects # table.subjects)
            /\ ~inside => (last'.ret = FALSE /\ table' = table)
            /\ (inside /\ content = SubjectAt(table, position))
                  => (last'.ret = FALSE /\ table' = table)
            /\ (inside /\ content # SubjectAt(table, position))
                  => /\ last'.ret = TRUE
                     /\ SubjectAt(table', position) = content
                     /\ table'.row_count = table.row_count
                     /\ table'.column_count = table.column_count
                     /\ \A q \in (DOMAIN table.subjects \cup DOMAIN table'.subjects)
                                 \ {position} :
                           SubjectAt(table', q) = SubjectAt(table, q) ]_vars

\* C13 witness: set_content stored a Block with an empty label next to
\* another entry of the grid.
C13_Witness ==
    /\ last.op = "set_subject" /\ last.ret = TRUE
    /\ SubjectAt(table, last.args[1]) = Block(<<>>)
    /\ Cardinality(DOMAIN table.subjects) >= 2

\* The status a position counts with: its entry, Unchecked without one.
CurrentStatus(statuses, p) ==
    IF p \in DOMAIN statuses THEN statuses[p] ELSE "Unchecked"

\* C14: set_status returns true exactly when the position is in bounds and
\* Active and the status differs from the position's current one (Unchecked
\* without an entry); then status_at(position) is the new status and no
\* other position's status changes.  It returns false when the position is
\* out of bounds, Blocked or Transparent, or the status is the current one.
C14_SetStatus ==
    [][ last'.op = "update_status" =>
        LET position == last'.args[1]
            status   == last'.args[2]
            applies  == /\ position \in ActivePositions(table)
                        /\ status # CurrentStatus(attendance, position)
        IN  /\ last'.ret = applies
            /\ applies =>
                  /\ StatusAt(attendance', position) = status
                  /\ \A q \in (DOMAIN attendance \cup DOMAIN attendance')
                              \ {position} :
                        StatusAt(attendance', q) = StatusAt(attendance, q) ]_vars

\* C14 witness: set_status changed the status of a position to Marked while
\* another position is tracked.
C14_Witness ==
    /\ last.op = "update_status" /\ last.ret = TRUE
    /\ last.args[2] = "Marked"
    /\ StatusAt(attendance, last.args[1]) = "Marked"
    /\ Cardinality(DOMAIN attendance) >= 2

\* C15: whenever set_status returns false the tracker is as it was: the same
\* tracked positions, each with the same status, also when the target is an
\* Active in-bounds position without an entry and the status is Unchecked.
C15_RefusedSetStatusChangesNothing ==
    [][ (last'.op = "update_status" /\ last'.ret = FALSE)
            => attendance' = attendance ]_vars

\* C16: a tracker created from a grid has exactly one entry, Unchecked, for
\* each in-bounds Active position of the grid, and none for a Blocked,
\* Transparent or out-of-bounds position: status_at is None there.
C16_CreateTracksActive ==
    last.op \in {"new", "book_new"} =>
        /\ DOMAIN attendance = ActivePositions(table)
        /\ \A p \in ActivePositions(table) : StatusAt(attendance, p) = "Unchecked"
        /\ \A p \in PositionInputs \cup DOMAIN table.subjects :
              p \notin ActivePositions(table) => StatusAt(attendance, p) = NoStatus

\* C16 witness: a tracker was created from a grid with an Occupied cell, a
\* Blocked or Transparent cell and a cell without content.
C16_Witness ==
    /\ last.op = "book_new"
    /\ \E p \in DOMAIN table.subjects : table.subjects[p].tag = "Some"
    /\ \E p \in DOMAIN table.subjects : IsInert(table, p)
    /\ \E p \in DOMAIN attendance : p \notin DOMAIN table.subjects

\* The number of in-bounds Active positions that count with the status.
Tally(statuses, t, status) ==
    Cardinality({p \in ActivePositions(t) : CurrentStatus(statuses, p) = status})

\* The grid and the tracker of the scenario: 2 x 2 with (0,0) = Occupied
\* "Amy" and (1,0) = Block "B1", after set_status((0,0), Marked).
ScenarioTable == TableNew(U32(2), U32(2), TwoEntries)

ScenarioStatuses ==
    [p \in {Position(0, 0), Position(0, 1), Position(1, 1)} |->
        IF p = Position(0, 0) THEN "Marked" ELSE "Unchecked"]

\* C17: statistics tallies, over the in-bounds Active positions only, the
\* positions with status Checked, Unchecked (also those without an entry)
\* and Marked, and reports active_total = active_cells() and blocked_total =
\* blocked_cells().  For the scenario grid the result is checked 0,
\* unchecked 2, marked 1, active_total 3, blocked_total 1, and
\* completed_ratio_percent is 33.
C17_Statistics ==
    [][ last'.op = "statistics" =>
        /\ last'.out.checked = U32(Tally(attendance, table, "Checked"))
        /\ last'.out.unchecked = U32(Tally(attendance, table, "Unchecked"))
        /\ last'.out.marked = U32(Tally(attendance, table, "Marked"))
        /\ last'.out.active_total = ActiveCells(table)
        /\ last'.out.blocked_total = BlockedCells(table)
        /\ (table = ScenarioTable /\ attendance = ScenarioStatuses) =>
              /\ last'.out = [checked |-> U32(0), unchecked |-> U32(2),
                              marked |-> U32(1), active_total |-> U32(3),
                              blocked_total |-> U32(1)]
              /\ CompletedRatioPercent(last'.out)
                    = [value |-> U32(33), overflow |-> FALSE] ]_vars

\* C17 witness: statistics ran on the scenario grid after
\* set_status((0,0), Marked).
C17_Witness ==
    /\ last.op = "statistics"
    /\ table = ScenarioTable /\ attendance = ScenarioStatuses

\* floor(100 * completed / total) on plain numbers, total above 0 and below
\* 2^31 / 10, without a product that passes 2^31.
FloorPercent(completed, total) ==
    LET tenths     == (10 * (completed % total)) \div total
        hundredths == (10 * ((10 * (completed % total)) % total)) \div total
    IN  100 * (completed \div total) + 10 * tenths + hundredths

\* C18: for every statistics value that statistics() produces,
\* completed_ratio_percent is 0 when active_total is 0, else
\* floor(100 * (checked + marked) / active_total), and at most 100.
C18_CompletedRatioPercent ==
    last.op = "completed_ratio_percent" =>
        LET statistics == last.args[1]
            completed  == U32ToNat(statistics.checked) + U32ToNat(statistics.marked)
            total      == U32ToNat(statistics.active_total)
            expected   == IF total = 0 THEN 0 ELSE FloorPercent(completed, total)
        IN  /\ last.out.panic = FALSE
            /\ last.out.value = U32(expected)
            /\ expected <= 100

\* add_row took the grid from t to u: one row more, the columns and the
\* entries as they were, and no content on the appended row.
RowAppended(t, u) ==
    /\ U32Add(t.row_count, U32(1)) = [value |-> u.row_count, carry |-> FALSE]
    /\ u.column_count = t.column_count
    /\ u.subjects = t.subjects
    /\ \A p \in PositionInputs \cup DOMAIN u.subjects :
          (U32(p.y) = t.row_count /\ Contains(u, p))
              => (SubjectAt(u, p) = None /\ CellKind(u, p) = Active)

\* add_column took the grid from t to u, likewise.
ColumnAppended(t, u) ==
    /\ U32Add(t.column_count, U32(1)) = [value |-> u.column_count, carry |-> FALSE]
    /\ u.row_count = t.row_count
    /\ u.subjects = t.subjects
    /\ \A p \in PositionInputs \cup DOMAIN u.subjects :
          (U32(p.x) = t.column_count /\ Contains(u, p))
              => (SubjectAt(u, p) = None /\ CellKind(u, p) = Active)

\* C19 (as stated): add_row increases row_count by exactly 1 and add_column
\* column_count by exactly 1; the other dimension and every stored entry are
\* unchanged, and no position of the appended row / column has content.
C19_AddGrowsByOne ==
    [][ /\ last'.op = "add_row" => RowAppended(table, table')
        /\ last'.op = "add_column" => ColumnAppended(table, table') ]_vars

\* C19 (amended): the same for a dimension below u32::MAX; at u32::MAX
\* add_row / add_column leaves the grid as it is.
C19_AddGrowsByOneOrSaturates ==
    [][ /\ last'.op = "add_row" =>
              IF table.row_count = U32MAX THEN table' = table
              ELSE RowAppended(table, table')
        /\ last'.op = "add_column" =>
              IF table.column_count = U32MAX THEN table' = table
              ELSE ColumnAppended(table, table') ]_vars

\* C19 witness: add_row ran on a grid of u32::MAX rows that holds an entry.
C19_Witness ==
    /\ last.op = "add_row"
    /\ table.row_count = U32MAX
    /\ DOMAIN table.subjects # {}

\* C20: for every reachable grid, load_config of what write_config wrote
\* yields a grid with the same row_count, the same column_count and the same
\* explicit entries.
C20_ConfigRoundTrip ==
    (last.op = "write_config" /\ last.out.ok) =>
        /\ LoadConfig(last.out.file).ok
        /\ LoadConfig(last.out.file).table.row_count = table.row_count
        /\ LoadConfig(last.out.file).table.column_count = table.column_count
        /\ LoadConfig(last.out.file).table.subjects = table.subjects

\* C20 witness: write_config wrote a grid that holds a Transparent entry and
\* an Occupied or Blocked one.
C20_Witness ==
    /\ last.op = "write_config" /\ last.out.ok
    /\ \E p \in DOMAIN table.subjects : table.subjects[p] = Transparent
    /\ \E p \in DOMAIN table.subjects : table.subjects[p].tag \in {"Some", "Block"}

\* A file that parses as the wrapped schema, and one that parses as the
\* bare one: a text that serde decodes as an AppConfigFile, as a TableConfig.
ParsesAsWrapped(file) ==
    file \notin {Missing, Unreadable} /\ DeserializeAppConfigFile(file).ok

ParsesAsBare(file) ==
    file \notin {Missing, Unreadable} /\ DeserializeTableConfig(file).ok

\* The table object decoded from the default_table field of a wrapped
\* file, and the one decoded from a bare file.
WrappedTableOf(file) == DeserializeAppConfigFile(file).value.default_table

BareTableOf(file) == DeserializeTableConfig(file).value

\* The content a decoded subject of the config file stands for.
ContentOf(c) ==
    LET name == IF c.name = None THEN <<>> ELSE c.name.value
    IN  CASE c.kind = "Transparent" -> Transparent
          [] c.kind = "Blocked" -> Block(name)
          [] c.kind = "Active" -> Some(name)

\* The entry list a decoded table object of the config file stands for.
EntriesOf(c) ==
    [k \in 1..Len(c.subjects) |->
        <<Position(c.subjects[k].x, c.subjects[k].y), ContentOf(c.subjects[k])>>]

\* The stored map of t holds, for each position of the list that is in
\* bounds, the content of its last occurrence, and nothing else.
KeepsLastInBounds(t, row_count, column_count, entries) ==
    LET occurs(p) == {k \in 1..Len(entries) : entries[k][1] = p}
        inside(p) == U32Lt(U32(p.x), column_count) /\ U32Lt(U32(p.y), row_count)
        listed    == {entries[k][1] : k \in 1..Len(entries)}
    IN  /\ t.row_count = row_count
        /\ t.column_count = column_count
        /\ DOMAIN t.subjects = {p \in listed : inside(p)}
        /\ \A p \in DOMAIN t.subjects :
              \E k \in occurs(p) :
                 /\ \A j \in occurs(p) : j <= k
                 /\ t.subjects[p] = entries[k][2]

\* C21: load_config decodes a document that parses as the wrapped schema
\* from its default_table field, whether or not it also parses as bare; a
\* document that parses only as bare is decoded as bare and the load
\* succeeds; the bare 1 x 1 document with the subject Zoe yields a 1 x 1 grid
\* with Occupied("Zoe") at (0, 0).
C21_WrappedThenBare ==
    last.op = "load_config" =>
        /\ ParsesAsWrapped(config_file) =>
              /\ last.out.ok
              /\ KeepsLastInBounds(last.out.table,
                                   WrappedTableOf(config_file).row_count,
                                   WrappedTableOf(config_file).column_count,
                                   EntriesOf(WrappedTableOf(config_file)))
        /\ (~ParsesAsWrapped(config_file) /\ ParsesAsBare(config_file)) =>
              /\ last.out.ok
              /\ KeepsLastInBounds(last.out.table, BareTableOf(config_file).row_count,
                                   BareTableOf(config_file).column_count,
                                   EntriesOf(BareTableOf(config_file)))
        /\ config_file = ZoeTable =>
              /\ last.out.ok
              /\ last.out.table =
                    MkTable(U32(1), U32(1),
                            MapInsert(EmptyMap, Position(0, 0), Some(<<"Z", "o", "e">>)))

\* C21 witness: load_config read a document that parses as wrapped and as
\* bare, the two parts holding different grids, and handed out the grid of
\* the default_table field.
C21_Witness ==
    /\ last.op = "load_config"
    /\ ParsesAsWrapped(config_file) /\ ParsesAsBare(config_file)
    /\ BareTableOf(config_file).row_count # WrappedTableOf(config_file).row_count
    /\ last.out.ok
    /\ last.out.table.row_count = WrappedTableOf(config_file).row_count

\* C22: Table::new and the reconstruction of load_config yield a grid whose
\* map holds, for each position of the list / the file that is in bounds,
\* the content of the last occurrence of that position, and nothing for a
\* position out of bounds.
C22_CreateKeepsLast ==
    /\ last.op = "new" =>
          KeepsLastInBounds(table, last.args[1], last.args[2], last.args[3])
    /\ (last.op = "load_config" /\ last.out.ok) =>
          LET object == IF ParsesAsWrapped(config_file)
                        THEN WrappedTableOf(config_file)
                        ELSE BareTableOf(config_file)
          IN  KeepsLastInBounds(last.out.table, object.row_count,
                                object.column_count, EntriesOf(object))

\* C22 witness: load_config rebuilt a grid from a file that names the
\* position (0, 0) twice, with different contents, and the second stands.
C22_Witness ==
    /\ last.op = "load_config" /\ last.out.ok
    /\ ParsesAsBare(config_file) /\ ~ParsesAsWrapped(config_file)
    /\ Len(BareTableOf(config_file).subjects) = 2
    /\ EntriesOf(BareTableOf(config_file))[1][1] = Position(0, 0)
    /\ EntriesOf(BareTableOf(config_file))[2][1] = Position(0, 0)
    /\ EntriesOf(BareTableOf(config_file))[1][2]
          # EntriesOf(BareTableOf(config_file))[2][2]
    /\ last.out.table.subjects[Position(0, 0)]
          = EntriesOf(BareTableOf(config_file))[2][2]

\* C23: load_config of a file that is unreadable or parses as neither schema
\* fails and hands out no grid; a load_config or write_config that fails
\* leaves the grid and the tracker as they were.
C23_FailureLeavesState ==
    [][ /\ (last'.op = "load_config"
              /\ ~ParsesAsWrapped(config_file) /\ ~ParsesAsBare(config_file)) =>
                 (~last'.out.ok /\ last'.out.table = None)
        /\ (last'.op \in {"load_config", "write_config"} /\ ~last'.out.ok) =>
                 (table' = table /\ attendance' = attendance)
      ]_vars

\* C23 witness: load_config failed on a readable document of neither schema
\* while a grid with explicit content exists.
C23_Witness ==
    /\ last.op = "load_config"
    /\ config_file \notin {Missing, Unreadable}
    /\ ~ParsesAsWrapped(config_file) /\ ~ParsesAsBare(config_file)
    /\ ~last.out.ok
    /\ DOMAIN table.subjects # {}

\* The events of the views that mutate the grid when they return TRUE.
GridHandlers ==
    {"ui_add_row", "ui_add_column", "ui_remove_row", "ui_remove_column", "ui_edit_save"}

\* C24 (as stated): every grid mutation made through the views is followed
\* by the reconciliation of the tracker, the emission of the statistics of
\* the reconciled tracker, and, before the next grid mutation, a write of
\* the mutated grid to the config file.
C24_MutationThenWrite ==
    [][ table' # table =>
          /\ DOMAIN attendance' = ActivePositions(table')
          /\ panel' = Statistics(attendance', table')
          /\ last'.out.emitted = panel'
          /\ ~(last.op \in GridHandlers /\ last.ret)
      ]_vars

\* C24 (amended): a grid mutation made through the views happens in Edit
\* mode, and its handler reconciles the tracker and emits the statistics of
\* the reconciled tracker; the handler that leaves Edit mode reconciles,
\* emits the statistics and then has the grid as it is written to the
\* config file, so that a successful write leaves the file holding the
\* grid of the views; a write that fails leaves the file as it was or
\* without a document in it.
C24_MutationThenWriteOnLeavingEdit ==
    [][ /\ table' # table =>
              /\ mode = "Edit" /\ mode' = "Edit"
              /\ DOMAIN attendance' = ActivePositions(table')
              /\ panel' = Statistics(attendance', table')
              /\ last'.out.emitted = panel'
        /\ (mode = "Edit" /\ mode' # "Edit") =>
              /\ table' = table
              /\ DOMAIN attendance' = ActivePositions(table)
              /\ panel' = Statistics(attendance', table)
              /\ last'.out.emitted = panel'
              /\ last'.out.exported # None
              /\ last'.out.exported.ok =>
                    /\ config_file' = last'.out.exported.file
                    /\ LoadConfig(config_file').ok
                    /\ LoadConfig(config_file').table = table
              /\ ~last'.out.exported.ok => config_file' \in {config_file, NotJson}
      ]_vars

\* C24 witness: the views are back in CheckIn mode after a row was added to
\* a 2 x 2 grid, and the config file holds the grid of three rows.
C24_Witness ==
    /\ last.op = "ui_set_mode" /\ mode = "CheckIn"
    /\ last.out.exported # None /\ last.out.exported.ok
    /\ RowCount(table) = 3 /\ ColumnCount(table) = 2
    /\ config_file = WriteConfig(table, Missing, "written").file

\* C30: after every event of the views the tracked positions are exactly the
\* in-bounds Active positions of the grid.
C30_ViewsKeepTrackerReconciled ==
    DOMAIN attendance = ActivePositions(table)

\* C30 witness: the save of the edit dialog made a tracked cell Blocked.
C30_Witness ==
    /\ last.op = "ui_edit_save" /\ last.ret
    /\ SubjectAt(table, last.args[1]) # None
    /\ IsBlocked(SubjectAt(table, last.args[1]))
    /\ DOMAIN attendance # {}

\* C29: the day-period label of a local time is "上午" before 11:00, "中午"
\* from 11:00 to 15:30 with both ends, and "下午" after 15:30, the time of
\* day being read in hours and minutes; the three labels differ, so exactly
\* one applies to each time.
C29_DayPeriodLabel ==
    last.op = "period_string" =>
        LET time   == last.args[1]
            before == time.hour < 11
            within == \/ time.hour \in 11..14
                      \/ time.hour = 15 /\ time.minute <= 30
            after  == \/ time.hour = 15 /\ time.minute > 30
                      \/ time.hour > 15
        IN  /\ before => last.out.label = Morning
            /\ within => last.out.label = Noon
            /\ after => last.out.label = Afternoon
            /\ Cardinality({Morning, Noon, Afternoon}) = 3
            /\ Cardinality({c \in {before, within, after} : c}) = 1

\* C29 witness: the label of 15:30:59, the last second of the noon period.
C29_Witness ==
    /\ last.op = "period_string"
    /\ last.args[1].hour = 15 /\ last.args[1].minute = 30
    /\ last.args[1].second = 59
    /\ last.out.label = Noon

\* The in-bounds positions of the grid.
InBounds(t) ==
    {Position(x, y) : x \in 0..(ColumnCount(t) - 1), y \in 0..(RowCount(t) - 1)}

\* p comes before q in row-major order.
RowMajorBefore(p, q) == p.y < q.y \/ (p.y = q.y /\ p.x < q.x)

\* The positions of a set in row-major order.
RECURSIVE RowMajor(_)
RowMajor(positions) ==
    IF positions = {} THEN <<>>
    ELSE LET first == CHOOSE p \in positions :
                          \A q \in positions \ {p} : RowMajorBefore(p, q)
         IN  <<first>> \o RowMajor(positions \ {first})

\* The in-bounds positions with Occupied content.
OccupiedPositions(t) ==
    {p \in InBounds(t) : SubjectAt(t, p) # None /\ SubjectAt(t, p).tag = "Some"}

\* The names line of a set of Occupied positions.
NamesLine(t, positions) ==
    LET order == RowMajor(positions)
    IN  FormatNames([k \in 1..Len(order) |-> SubjectAt(t, order[k]).name])

\* C25 (as stated): the unchecked-names line of the export holds, in
\* row-major order, the name of every in-bounds Occupied position whose
\* status is Unchecked, a position without an entry counting as Unchecked,
\* and the marked-names line the name of every Occupied position whose
\* status is Marked.
C25_ExportListsAllNames ==
    last.op = "build_export_text_zh" =>
        /\ last.out.unchecked_names =
              NamesLine(table, {p \in OccupiedPositions(table) :
                                  CurrentStatus(attendance, p) = "Unchecked"})
        /\ last.out.marked_names =
              NamesLine(table, {p \in OccupiedPositions(table) :
                                  CurrentStatus(attendance, p) = "Marked"})

\* C26: each names line of the export is made of names of in-bounds
\* Occupied positions only, whatever statuses the tracker holds for Blocked,
\* Transparent, empty or out-of-bounds positions.
C26_NamesFromOccupiedOnly ==
    last.op = "build_export_text_zh" =>
        /\ \E listed \in SUBSET OccupiedPositions(table) :
              last.out.unchecked_names = NamesLine(table, listed)
        /\ \E listed \in SUBSET OccupiedPositions(table) :
              last.out.marked_names = NamesLine(table, listed)

\* C26 witness: an export that lists a name while the tracker holds the
\* status of a Blocked cell.
C26_Witness ==
    /\ last.op = "build_export_text_zh"
    /\ last.out.unchecked_names # <<>>
    /\ \E p \in DOMAIN attendance :
          /\ attendance[p] \in {"Unchecked", "Marked"}
          /\ Contains(table, p)
          /\ SubjectAt(table, p) # None /\ IsBlocked(SubjectAt(table, p))

\* C27: iter_positions yields every in-bounds position exactly once,
\* rows x columns positions in all, in row-major order, and the same
\* sequence when it is run again on the unchanged grid.
C27_IterPositionsRowMajor ==
    [][ last'.op = "iter_positions" =>
          LET positions == last'.out.positions
          IN  /\ Len(positions) = RowCount(table') * ColumnCount(table')
              /\ {positions[k] : k \in 1..Len(positions)} = InBounds(table')
              /\ \A j, k \in 1..Len(positions) :
                    j < k => RowMajorBefore(positions[j], positions[k])
              /\ last.op = "iter_positions" => positions = last.out.positions
      ]_vars

\* C27 witness: the positions of a 2 x 2 grid were yielded twice in a row.
C27_Witness ==
    /\ last.op = "iter_positions" /\ steps = 2
    /\ RowCount(table) = 2 /\ ColumnCount(table) = 2
    /\ Len(last.out.positions) = 4

\* C28: cell_kind is None exactly for a position out of bounds; in bounds it
\* is Transparent iff the stored content is Transparent, Blocked iff it is a
\* Block, and Active otherwise, so that a position without an entry is
\* Active; is_inert holds exactly for Blocked and Transparent.
C28_KindAt ==
    last.op = "cell_kind" =>
        LET position == last.args[1]
            kind     == last.out.kind
            stored   == IF position \in DOMAIN table.subjects
                        THEN table.subjects[position].tag ELSE "absent"
            inside   == position.x < ColumnCount(table) /\ position.y < RowCount(table)
        IN  /\ kind = None <=> ~inside
            /\ inside =>
                  /\ kind = TransparentKind <=> stored = "Transparent"
                  /\ kind = Blocked <=> stored = "Block"
                  /\ kind = Active <=> stored \in {"Some", "absent"}
            /\ last.out.inert <=> kind \in {Blocked, TransparentKind}

\* C28 witness: the kind of an in-bounds position without an entry was
\* asked for.
C28_Witness ==
    /\ last.op = "cell_kind"
    /\ Contains(table, last.args[1])
    /\ last.args[1] \notin DOMAIN table.subjects
    /\ last.out.kind = Active /\ ~last.out.inert

\* C31: after every event of the views the statistics last delivered to the
\* status-changed callbacks, or those of get_statistics at startup if none
\* was delivered, are the statistics of the current grid and tracker.
C31_StatisticsNeverStale ==
    panel = Statistics(attendance, table)

\* C31 witness: a choice in the StatusDialog changed a status, and the
\* statistics delivered count a Checked or Marked cell.
C31_Witness ==
    /\ last.op = "ui_status_choice" /\ last.ret
    /\ last.out.emitted = panel
    /\ U32ToNat(panel.checked) + U32ToNat(panel.marked) > 0

\* C32: an event of the views runs the table-exported callbacks, which
\* write the config file, exactly when it takes the views from Edit to
\* CheckIn; that event is a set_mode, the tracker it leaves is reconciled
\* with the grid, and what is written is the grid as it is then.  Edits in
\* Edit mode, the change from CheckIn to Edit, a set_mode to the current
\* mode and status changes write nothing and leave the file as it is.
C32_WriteExactlyOnLeavingEdit ==
    [][ LET leaving == mode = "Edit" /\ mode' = "CheckIn"
        IN  /\ last'.out.exported # None <=> leaving
            /\ ~leaving => config_file' = config_file
            /\ leaving =>
                  /\ last'.op = "ui_set_mode"
                  /\ table' = table
                  /\ attendance' = ReconcileWithTable(attendance, table)
                  /\ DOMAIN attendance' = ActivePositions(table)
                  /\ \E outcome \in WriteOutcomes :
                        /\ last'.out.exported = WriteConfig(table, config_file, outcome)
                        /\ config_file' = last'.out.exported.file
      ]_vars

\* C32 witness: the views are back in CheckIn mode after the edit dialog
\* made a cell Blocked, and the file that was written loads as that grid.
C32_Witness ==
    /\ last.op = "ui_set_mode" /\ mode = "CheckIn"
    /\ last.out.exported # None /\ last.out.exported.ok
    /\ \E p \in DOMAIN table.subjects : table.subjects[p] = Block(<<"b">>)
    /\ LoadConfig(config_file).ok
    /\ LoadConfig(config_file).table = table

\* The events of the views that change the dimensions of the grid.
DimensionHandlers ==
    {"ui_add_row", "ui_add_column", "ui_remove_row", "ui_remove_column"}

\* C33: in the views the dimensions of the grid change only in Edit mode:
\* an add-row, add-column, remove-row or remove-column event in CheckIn mode
\* leaves the grid, the tracker and everything else as it is, takes the
\* branch that neither rebuilds the rendered grid nor emits statistics.
C33_DimensionsChangeOnlyInEdit ==
    [][ /\ (RowCount(table') # RowCount(table)
                \/ ColumnCount(table') # ColumnCount(table)) =>
              /\ mode = "Edit" /\ mode' = "Edit"
              /\ last'.op \in DimensionHandlers
        /\ (last'.op \in DimensionHandlers /\ mode = "CheckIn") =>
              /\ table' = table
              /\ attendance' = attendance
              /\ panel' = panel
              /\ mode' = mode /\ config_file' = config_file
              /\ ~last'.ret
              /\ last'.out.emitted = None
      ]_vars

\* C33 witness: the remove button of a row of a grid with two rows or more
\* was clicked in CheckIn mode, and nothing happened.
C33_Witness ==
    /\ last.op = "ui_remove_row" /\ mode = "CheckIn"
    /\ ~last.ret /\ last.out.emitted = None
    /\ RowCount(table) >= 2

\* C34: a status does not survive a detour through a kind that is not
\* Active.  Each save of the edit dialog sets the content of a cell and
\* reconciles the tracker: a cell that is Blocked or Transparent after it
\* has no status left, a cell that was Blocked or Transparent and is Active
\* after it has the status Unchecked, and a cell that was Active and still
\* is (its name changed, or it was cleared) keeps the status it had.
C34_StatusLostOnDetour ==
    [][ \A p \in InBounds(table') :
          LET was == CellKind(table, p)
              now == CellKind(table', p)
          IN  /\ now \in {Blocked, TransparentKind} => p \notin DOMAIN attendance'
              /\ (was \in {Blocked, TransparentKind} /\ now = Active) =>
                    StatusAt(attendance', p) = "Unchecked"
              /\ (was = Active /\ now = Active) =>
                    StatusAt(attendance', p) = StatusAt(attendance, p)
      ]_vars

\* C34 witness: the first cell, Checked or Marked at the start, is Occupied
\* and Unchecked after a save made it Blocked or Transparent and a later
\* save gave it a name.
C34_Witness ==
    /\ last.op = "ui_edit_save" /\ last.ret
    /\ SubjectAt(table, Position(0, 0)) = Some(<<"a">>)
    /\ StatusAt(attendance, Position(0, 0)) = "Unchecked"
    /\ steps >= 2

\* C35 (as stated): for every reachable grid and every tracker, reconciled
\* or not, statistics returns a value whose checked, unchecked and marked
\* add up to its active_total.
C35_TalliesAddUpToActiveTotal ==
    last.op = "statistics" =>
        /\ ~last.out.panic
        /\ LET value == last.out.value
               two   == U32Add(value.checked, value.unchecked)
               three == U32Add(two.value, value.marked)
           IN  /\ ~two.carry /\ ~three.carry
               /\ three.value = value.active_total

\* C36: set_subject is idempotent: a second call with the same position
\* and content, right after the first, returns false and leaves the grid as
\* the first call left it.
C36_SetContentIdempotent ==
    [][ (/\ last.op = "set_subject" /\ last'.op = "set_subject"
         /\ last'.args = last.args) =>
            /\ ~last'.ret
            /\ table' = table
      ]_vars

\* C36 witness: the second of two calls that hand in the name "c" padded
\* with a tab for a cell in bounds; the first stored the name "c".
C36_Witness ==
    /\ last.op = "set_subject" /\ steps = 2 /\ ~last.ret
    /\ last.args[2] = Some(<<"\t", "c">>)
    /\ SubjectAt(table, last.args[1]) = Some(<<"c">>)

\* C37 (as stated): the arithmetic on the dimensions never wraps: add_row
\* and add_column add one or stay at u32::MAX, and for every grid reached by
\* add_row and add_column total_cells returns the true product of
\* row_count and column_count, without wrap-around and without failing.
C37_DimensionsNeverWrap ==
    /\ last.op = "add_row" =>
          \/ table.row_count = U32MAX
          \/ U32Lt(U32(0), table.row_count)
    /\ last.op = "add_column" =>
          \/ table.column_count = U32MAX
          \/ U32Lt(U32(0), table.column_count)
    /\ last.op = "total_cells" =>
          /\ ~last.out.panic
          /\ ~TotalCellsMul(table).overflow
          /\ last.out.value = TotalCellsMul(table).value

====
